---- MODULE Spec2Model ----
(***************************************************************************)
(* BoltGuard: the policy evaluation engine (internal/rules), the policy    *)
(* schema and validator (internal/policy), the fact model                  *)
(* (internal/facts) and the scan driver (cmd/boltguard).                   *)
(*                                                                         *)
(* Go strings whose content is inspected (env entries, regular             *)
(* expressions, base images, prefixes, label keys) are sequences of        *)
(* one-character strings; strings that are only compared, tested for       *)
(* emptiness or printed (ids, names, kinds, severities, users) are TLA+    *)
(* strings.  A message built by fmt.Sprintf is the sequence of its         *)
(* format segments and formatted arguments.                                *)
(***************************************************************************)
EXTENDS Integers, Sequences, FiniteSets, TLC

VARIABLES
    pc,          \* position of the driver of the specification at hand
    facts,       \* *facts.Facts handed to Engine.Evaluate
    policy,      \* *policy.Policy handed to Validate / Engine.Evaluate
    evaluators,  \* Engine.evaluators: kind -> evaluator
    calls,       \* what Engine.Evaluate returned, call after call, since the registry last changed
    verr,        \* error returned by Policy.Validate
    results,     \* []*Result given to the aggregate counters
    counts,      \* map returned by CountBySeverity
    critical,    \* value returned by HasCriticalFailures
    policyPath,  \* -policy flag of the scan
    files,       \* file system: path -> document, for the paths that exist
    embedded,    \* the document embedded as defaults/default.yaml
    validated,   \* whether Validate has run on the policy the scan loaded
    runErr,      \* error returned by run ("" when none)
    imageName,   \* image argument of the scan
    format,      \* -format flag of the scan
    report,      \* *report.Report built by report.New
    output,      \* what the scan wrote to stdout
    image,       \* *image.Image returned by image.Load
    useCache,    \* -cache flag of the scan
    cacheFiles,  \* the cache directory: key -> CachedResult, for the entries on disk
    digest,      \* the cache key run computed for its image
    cached,      \* what cache.Get returned to run
    exit,        \* how the process of the scan ended
    callers,     \* concurrent callers of Engine.Evaluate: their arguments and progress
    got,         \* what the config accessors returned
    latest       \* kind -> the evaluator last handed to Engine.Register for it

vars == <<pc, facts, policy, evaluators, calls, verr, results, counts, critical,
          policyPath, files, embedded, validated, runErr,
          imageName, format, report, output,
          image, useCache, cacheFiles, digest, cached, exit, callers, got, latest>>

reportVars == <<imageName, format, report, output>>

scanVars == <<image, useCache, cacheFiles, digest, cached, exit>>

auxVars == <<callers, got, latest>>

----------------------------------------------------------------------------
(* Bounds *)

\* longest policy (number of rules)
MaxRules == 2

\* Engine.Evaluate calls followed on one engine between two changes of its registry
MaxCalls == 2

\* longest Result sequence given to the aggregate counters
MaxResults == 3

\* latest second of the minute at which a scan builds its Report
MaxClock == 1

\* largest image judged by the size rule, in whole MB
MaxSizeMB == 5

\* most layers of an image judged by the layers rule
MaxLayerCount == 5

----------------------------------------------------------------------------
(* Strings *)

RECURSIVE Str(_)
\* the Go string made of the characters cs
Str(cs) == IF cs = <<>> THEN "" ELSE cs[1] \o Str(Tail(cs))

UpperLetters == <<"A", "B", "C", "D", "E", "F", "G", "H", "I", "J", "K", "L", "M",
                  "N", "O", "P", "Q", "R", "S", "T", "U", "V", "W", "X", "Y", "Z">>

LowerLetters == <<"a", "b", "c", "d", "e", "f", "g", "h", "i", "j", "k", "l", "m",
                  "n", "o", "p", "q", "r", "s", "t", "u", "v", "w", "x", "y", "z">>

\* strings.ToLower on one character
LowerChar(c) ==
    IF \E k \in DOMAIN UpperLetters : UpperLetters[k] = c
    THEN LowerLetters[CHOOSE k \in DOMAIN UpperLetters : UpperLetters[k] = c]
    ELSE c

\* strings.ToLower
ToLower(cs) == [k \in DOMAIN cs |-> LowerChar(cs[k])]

\* strings.HasPrefix
HasPrefix(cs, prefix) ==
    /\ Len(prefix) <= Len(cs)
    /\ SubSeq(cs, 1, Len(prefix)) = prefix

\* strings.SplitN(env, "=", 2)[0]: the text before the first "="
EnvKey(env) ==
    IF \E k \in DOMAIN env : env[k] = "="
    THEN SubSeq(env, 1, (CHOOSE k \in DOMAIN env :
                            /\ env[k] = "="
                            /\ \A j \in 1..(k - 1) : env[j] # "=") - 1)
    ELSE env

RECURSIVE Join(_, _)
\* strings.Join over already formatted pieces: the pieces with sep between them
Join(pieces, sep) ==
    IF pieces = <<>> THEN <<>>
    ELSE IF Len(pieces) = 1 THEN <<pieces[1]>>
    ELSE <<pieces[1], sep>> \o Join(Tail(pieces), sep)

RECURSIVE Flatten(_)
\* concatenation of a sequence of piece sequences
Flatten(ss) == IF ss = <<>> THEN <<>> ELSE ss[1] \o Flatten(Tail(ss))

----------------------------------------------------------------------------
(* regexp (the fragment the policies of this model use: an optional (?i)   *)
(* flag followed by literal characters; "[" opens a class that is never    *)
(* closed)                                                                 *)

FoldFlag == <<"(", "?", "i", ")">>

RegexpFold(p) == HasPrefix(p, FoldFlag)

RegexpBody(p) == IF RegexpFold(p) THEN SubSeq(p, Len(FoldFlag) + 1, Len(p)) ELSE p

\* regexp.Compile: [ok, err]
RegexpCompile(p) ==
    IF \E k \in DOMAIN RegexpBody(p) : RegexpBody(p)[k] = "["
    THEN [ok |-> FALSE, err |-> "error parsing regexp: missing closing ]"]
    ELSE [ok |-> TRUE, err |-> ""]

\* (*Regexp).MatchString: the literal occurs somewhere in s
MatchString(p, s) ==
    LET body == IF RegexpFold(p) THEN ToLower(RegexpBody(p)) ELSE RegexpBody(p)
        text == IF RegexpFold(p) THEN ToLower(s) ELSE s
    IN \E k \in 0..(Len(text) - Len(body)) :
           SubSeq(text, k + 1, k + Len(body)) = body

----------------------------------------------------------------------------
(* internal/policy: rules and their configuration bag.  A rule's Config is  *)
(* a sequence of <<key, value>> pairs with distinct keys (nil and empty    *)
(* are both <<>>); a value carries its dynamic type in t.                   *)

HasKey(r, key) == \E k \in DOMAIN r.Config : r.Config[k][1] = key

Lookup(r, key) == r.Config[CHOOSE k \in DOMAIN r.Config : r.Config[k][1] = key][2]

\* (*Rule).GetConfigString
GetConfigString(r, key) ==
    IF ~HasKey(r, key) THEN <<>>
    ELSE IF Lookup(r, key).t = "str" THEN Lookup(r, key).s
    ELSE <<>>

\* int(v) rounding a float64 v given in tenths down
FloorTenths(n) == n \div 10

\* int(v) for a float64 v given in tenths: truncation toward zero
TruncTenths(n) == IF n >= 0 THEN n \div 10 ELSE -((-n) \div 10)

\* (*Rule).GetConfigInt
GetConfigInt(r, key) ==
    IF ~HasKey(r, key) THEN 0
    ELSE CASE Lookup(r, key).t = "int" -> Lookup(r, key).n
           [] Lookup(r, key).t = "int64" -> Lookup(r, key).n
           [] Lookup(r, key).t = "float" -> TruncTenths(Lookup(r, key).tenths)
           [] OTHER -> 0

\* (*Rule).GetConfigBool
GetConfigBool(r, key) ==
    IF ~HasKey(r, key) THEN FALSE
    ELSE IF Lookup(r, key).t = "bool" THEN Lookup(r, key).b
    ELSE FALSE

RECURSIVE StringItems(_)
\* the string elements of a []interface{}, in order
StringItems(items) ==
    IF items = <<>> THEN <<>>
    ELSE IF items[1].t = "str" THEN <<items[1].s>> \o StringItems(Tail(items))
    ELSE StringItems(Tail(items))

\* (*Rule).GetConfigStringSlice
GetConfigStringSlice(r, key) ==
    IF ~HasKey(r, key) THEN <<>>
    ELSE CASE Lookup(r, key).t = "strs" -> Lookup(r, key).ss
           [] Lookup(r, key).t = "list" -> StringItems(Lookup(r, key).items)
           [] OTHER -> <<>>

----------------------------------------------------------------------------
(* internal/policy: validation and loading.  An error is [ok, msg] with    *)
(* ok = TRUE for nil.                                                      *)

NoError == [ok |-> TRUE, msg |-> <<>>]

Errorf(msg) == [ok |-> FALSE, msg |-> msg]

Severities == {"critical", "high", "medium", "low", "info"}

RECURSIVE ValidateRulesKindFirst(_, _)
\* ValidateRules with the kind looked at before the name
ValidateRulesKindFirst(rules, i) ==
    IF rules = <<>> THEN NoError
    ELSE IF rules[1].ID = "" THEN Errorf(<<"rule ", ToString(i), " missing ID">>)
    ELSE IF rules[1].Kind = "" THEN Errorf(<<"rule ", rules[1].ID, " missing kind">>)
    ELSE IF rules[1].Name = "" THEN Errorf(<<"rule ", rules[1].ID, " missing name">>)
    ELSE IF rules[1].Severity \notin Severities
    THEN Errorf(<<"rule ", rules[1].ID, " has invalid severity: ", rules[1].Severity>>)
    ELSE ValidateRulesKindFirst(Tail(rules), i + 1)

RECURSIVE ValidateRules(_, _)
\* the loop of Validate over the rules from index i on
ValidateRules(rules, i) ==
    IF rules = <<>> THEN NoError
    ELSE IF rules[1].ID = "" THEN Errorf(<<"rule ", ToString(i), " missing ID">>)
    ELSE IF rules[1].Name = "" THEN Errorf(<<"rule ", rules[1].ID, " missing name">>)
    ELSE IF rules[1].Kind = "" THEN Errorf(<<"rule ", rules[1].ID, " missing kind">>)
    ELSE IF rules[1].Severity \notin Severities
    THEN Errorf(<<"rule ", rules[1].ID, " has invalid severity: ", rules[1].Severity>>)
    ELSE ValidateRules(Tail(rules), i + 1)

\* (*Policy).Validate
Validate(p) ==
    IF p.Name = "" THEN Errorf(<<"policy must have a name">>)
    ELSE IF Len(p.Rules) = 0 THEN Errorf(<<"policy must have at least one rule">>)
    ELSE ValidateRules(p.Rules, 0)

\* A document is unreadable, malformed YAML, or YAML that unmarshals into a
\* Policy.  A load returns [err, policy, ranValidate]: err = "" for nil, and
\* ranValidate tells whether Validate ran on the parsed policy.
NoPolicy == [Name |-> "", Description |-> "", Version |-> "",
             Settings |-> [FailOnError |-> FALSE, MinSeverity |-> ""], Rules |-> <<>>]

\* LoadFromFile, over the file system fs
LoadFromFile(fs, path) ==
    IF path \notin DOMAIN fs \/ fs[path].kind = "unreadable"
    THEN [err |-> "failed to read policy file", policy |-> NoPolicy, ranValidate |-> FALSE]
    ELSE IF fs[path].kind = "malformed"
    THEN [err |-> "failed to parse policy YAML", policy |-> NoPolicy, ranValidate |-> FALSE]
    ELSE IF ~Validate(fs[path].policy).ok
    THEN [err |-> "invalid policy", policy |-> NoPolicy, ranValidate |-> TRUE]
    ELSE [err |-> "", policy |-> fs[path].policy, ranValidate |-> TRUE]

\* LoadDefault, over the embedded document
LoadDefault(doc) ==
    IF doc.kind = "malformed"
    THEN [err |-> "failed to parse default policy", policy |-> NoPolicy,
          ranValidate |-> FALSE]
    ELSE [err |-> "", policy |-> doc.policy, ranValidate |-> FALSE]

----------------------------------------------------------------------------
(* internal/facts *)

BytesPerMB == 1048576

\* Extract: the facts of an image whose config has the given user, labels
\* (a map, here <<key, value>> pairs with distinct keys) and env, whose layers
\* number layerCount and total size bytes, and whose history yields base as
\* inferred base image
Extract(user, labels, env, base, layerCount, size) ==
    [User |-> user,
     RunsAsRoot |-> (user = "" \/ user = "root" \/ user = "0"),
     Labels |-> labels,
     Env |-> env,
     BaseImage |-> base,
     LayerCount |-> layerCount,
     Size |-> size]

\* (*Facts).HasLabel
HasLabel(f, key) == \E k \in DOMAIN f.Labels : f.Labels[k][1] = key

\* int((*Facts).SizeMB()): float64(Size) / (1024 * 1024), truncated
SizeMB(f) == f.Size \div BytesPerMB

----------------------------------------------------------------------------
(* internal/rules: the built-in evaluators.  An evaluator returns          *)
(* [ok, res, err]: (res, nil) as ok = TRUE, (nil, err) as ok = FALSE.      *)

\* &Result{Passed: passed, Message: msg}
MkResult(passed, msg) ==
    [RuleID |-> "", RuleName |-> "", Severity |-> "", Passed |-> passed,
     Message |-> msg, Description |-> ""]

NilResult == MkResult(FALSE, <<>>)

Ok(res) == [ok |-> TRUE, res |-> res, err |-> <<>>]

Err(e) == [ok |-> FALSE, res |-> NilResult, err |-> e]

\* UserEvaluator with allow_root ignored
UserEvaluatorIgnoringAllow(f, r) ==
    IF f.RunsAsRoot
    THEN Ok(MkResult(FALSE, <<"image runs as root (user=", f.User, ")">>))
    ELSE Ok(MkResult(TRUE, <<"runs as user: ", f.User>>))

\* (*UserEvaluator).Evaluate
UserEvaluator(f, r) ==
    IF f.RunsAsRoot /\ ~GetConfigBool(r, "allow_root")
    THEN Ok(MkResult(FALSE, <<"image runs as root (user=", f.User, ")">>))
    ELSE Ok(MkResult(TRUE, <<"runs as user: ", f.User>>))

\* SizeEvaluator with the hard limit applied even when max_mb is not positive
SizeEvaluatorAlwaysLimited(f, r) ==
    LET maxMB == GetConfigInt(r, "max_mb")
        warnMB == GetConfigInt(r, "warn_mb")
        sizeMB == SizeMB(f)
    IN IF sizeMB > maxMB
       THEN Ok(MkResult(FALSE, <<"image size ", ToString(sizeMB), "MB exceeds maximum ",
                                 ToString(maxMB), "MB">>))
       ELSE IF warnMB > 0 /\ sizeMB > warnMB
       THEN Ok(MkResult(TRUE, <<"image size ", ToString(sizeMB),
                                "MB exceeds warning threshold ", ToString(warnMB), "MB">>))
       ELSE Ok(MkResult(TRUE, <<"image size: ", ToString(sizeMB), "MB">>))

\* (*SizeEvaluator).Evaluate
SizeEvaluator(f, r) ==
    LET maxMB == GetConfigInt(r, "max_mb")
        warnMB == GetConfigInt(r, "warn_mb")
        sizeMB == SizeMB(f)
    IN IF maxMB > 0 /\ sizeMB > maxMB
       THEN Ok(MkResult(FALSE, <<"image size ", ToString(sizeMB), "MB exceeds maximum ",
                                 ToString(maxMB), "MB">>))
       ELSE IF warnMB > 0 /\ sizeMB > warnMB
       THEN Ok(MkResult(TRUE, <<"image size ", ToString(sizeMB),
                                "MB exceeds warning threshold ", ToString(warnMB), "MB">>))
       ELSE Ok(MkResult(TRUE, <<"image size: ", ToString(sizeMB), "MB">>))

RECURSIVE MissingLabels(_, _)
\* the required labels the image lacks, in declaration order
MissingLabels(f, required) ==
    IF required = <<>> THEN <<>>
    ELSE IF ~HasLabel(f, required[1])
    THEN <<Str(required[1])>> \o MissingLabels(f, Tail(required))
    ELSE MissingLabels(f, Tail(required))

\* LabelEvaluator naming only the first missing label
LabelEvaluatorFirstMissing(f, r) ==
    LET missing == MissingLabels(f, GetConfigStringSlice(r, "required"))
    IN IF Len(missing) > 0
       THEN Ok(MkResult(FALSE, <<"missing required labels: ", missing[1]>>))
       ELSE Ok(MkResult(TRUE, <<"all required labels present (",
                                ToString(Len(f.Labels)), " total labels)">>))

\* (*LabelEvaluator).Evaluate
LabelEvaluator(f, r) ==
    LET missing == MissingLabels(f, GetConfigStringSlice(r, "required"))
    IN IF Len(missing) > 0
       THEN Ok(MkResult(FALSE, <<"missing required labels: ">> \o Join(missing, ", ")))
       ELSE Ok(MkResult(TRUE, <<"all required labels present (",
                                ToString(Len(f.Labels)), " total labels)">>))

RECURSIVE MatchesOfWholeEntry(_, _)
\* MatchesOf reporting the whole env entry instead of its key
MatchesOfWholeEntry(pattern, env) ==
    IF env = <<>> THEN <<>>
    ELSE IF MatchString(pattern, env[1])
    THEN << <<"env var ", Str(env[1]), " matches pattern ", Str(pattern)>> >>
         \o MatchesOfWholeEntry(pattern, Tail(env))
    ELSE MatchesOfWholeEntry(pattern, Tail(env))

RECURSIVE MatchesOf(_, _)
\* one violation per env entry the pattern matches, in env order
MatchesOf(pattern, env) ==
    IF env = <<>> THEN <<>>
    ELSE IF MatchString(pattern, env[1])
    THEN << <<"env var ", Str(EnvKey(env[1])), " matches pattern ", Str(pattern)>> >>
         \o MatchesOf(pattern, Tail(env))
    ELSE MatchesOf(pattern, Tail(env))

RECURSIVE EnvScanSkipping(_, _, _)
\* EnvScan with a pattern that does not compile skipped instead of reported
EnvScanSkipping(patterns, env, violations) ==
    IF patterns = <<>> THEN [ok |-> TRUE, violations |-> violations, err |-> <<>>]
    ELSE IF ~RegexpCompile(patterns[1]).ok
    THEN EnvScanSkipping(Tail(patterns), env, violations)
    ELSE EnvScanSkipping(Tail(patterns), env, violations \o MatchesOf(patterns[1], env))

RECURSIVE EnvScan(_, _, _)
\* the loop over denyPatterns: [ok, violations, err]
EnvScan(patterns, env, violations) ==
    IF patterns = <<>> THEN [ok |-> TRUE, violations |-> violations, err |-> <<>>]
    ELSE IF ~RegexpCompile(patterns[1]).ok
    THEN [ok |-> FALSE, violations |-> violations,
          err |-> <<"invalid regex pattern ", Str(patterns[1]), ": ",
                    RegexpCompile(patterns[1]).err>>]
    ELSE EnvScan(Tail(patterns), env, violations \o MatchesOf(patterns[1], env))

\* (*EnvEvaluator).Evaluate
EnvEvaluator(f, r) ==
    LET scan == EnvScan(GetConfigStringSlice(r, "deny_patterns"), f.Env, <<>>)
    IN IF ~scan.ok THEN Err(scan.err)
       ELSE IF Len(scan.violations) > 0
       THEN Ok(MkResult(FALSE, <<"found suspicious env vars: ">>
                                   \o Flatten(Join(scan.violations, <<"; ">>))))
       ELSE Ok(MkResult(TRUE, <<"no suspicious env vars detected (",
                                ToString(Len(f.Env)), " total)">>))

\* BaseEvaluator comparing prefixes case-sensitively
BaseEvaluatorExactCase(f, r) ==
    LET allowedPrefixes == GetConfigStringSlice(r, "allowed_prefixes")
        allowUnknown == GetConfigBool(r, "allow_unknown")
    IN IF f.BaseImage = <<>> \/ Str(f.BaseImage) = "unknown"
       THEN IF allowUnknown
            THEN Ok(MkResult(TRUE, <<"base image unknown (allowed by policy)">>))
            ELSE Ok(MkResult(FALSE, <<"could not determine base image">>))
       ELSE IF \E k \in DOMAIN allowedPrefixes : HasPrefix(f.BaseImage, allowedPrefixes[k])
       THEN Ok(MkResult(TRUE, <<"base image: ", Str(f.BaseImage)>>))
       ELSE IF allowUnknown
       THEN Ok(MkResult(TRUE, <<"base image ", Str(f.BaseImage), " not in recommended list">>))
       ELSE Ok(MkResult(FALSE, <<"base image ", Str(f.BaseImage), " not allowed">>))

\* (*BaseEvaluator).Evaluate
BaseEvaluator(f, r) ==
    LET allowedPrefixes == GetConfigStringSlice(r, "allowed_prefixes")
        allowUnknown == GetConfigBool(r, "allow_unknown")
    IN IF f.BaseImage = <<>> \/ Str(f.BaseImage) = "unknown"
       THEN IF allowUnknown
            THEN Ok(MkResult(TRUE, <<"base image unknown (allowed by policy)">>))
            ELSE Ok(MkResult(FALSE, <<"could not determine base image">>))
       ELSE IF \E k \in DOMAIN allowedPrefixes :
                   HasPrefix(ToLower(f.BaseImage), ToLower(allowedPrefixes[k]))
       THEN Ok(MkResult(TRUE, <<"base image: ", Str(f.BaseImage)>>))
       ELSE IF allowUnknown
       THEN Ok(MkResult(TRUE, <<"base image ", Str(f.BaseImage), " not in recommended list">>))
       ELSE Ok(MkResult(FALSE, <<"base image ", Str(f.BaseImage), " not allowed">>))

\* LayersEvaluator failing an image that is exactly at max_layers
LayersEvaluatorAtLimit(f, r) ==
    LET maxLayers == GetConfigInt(r, "max_layers")
        warnLayers == GetConfigInt(r, "warn_layers")
        count == f.LayerCount
    IN IF maxLayers > 0 /\ count >= maxLayers
       THEN Ok(MkResult(FALSE, <<"layer count ", ToString(count), " exceeds maximum ",
                                 ToString(maxLayers)>>))
       ELSE IF warnLayers > 0 /\ count > warnLayers
       THEN Ok(MkResult(TRUE, <<"layer count ", ToString(count),
                                " exceeds warning threshold ", ToString(warnLayers)>>))
       ELSE Ok(MkResult(TRUE, <<"layer count: ", ToString(count)>>))

\* (*LayersEvaluator).Evaluate
LayersEvaluator(f, r) ==
    LET maxLayers == GetConfigInt(r, "max_layers")
        warnLayers == GetConfigInt(r, "warn_layers")
        count == f.LayerCount
    IN IF maxLayers > 0 /\ count > maxLayers
       THEN Ok(MkResult(FALSE, <<"layer count ", ToString(count), " exceeds maximum ",
                                 ToString(maxLayers)>>))
       ELSE IF warnLayers > 0 /\ count > warnLayers
       THEN Ok(MkResult(TRUE, <<"layer count ", ToString(count),
                                " exceeds warning threshold ", ToString(warnLayers)>>))
       ELSE Ok(MkResult(TRUE, <<"layer count: ", ToString(count)>>))

----------------------------------------------------------------------------
(* internal/rules: the engine *)

Builtin ==
    [k \in {"user", "size", "label", "env", "base", "layers"} |->
        CASE k = "user" -> "UserEvaluator"
          [] k = "size" -> "SizeEvaluator"
          [] k = "label" -> "LabelEvaluator"
          [] k = "env" -> "EnvEvaluator"
          [] k = "base" -> "BaseEvaluator"
          [] k = "layers" -> "LayersEvaluator"]

\* NewEngine: the registry of a new engine
NewEngine == Builtin

\* Register leaving a kind that is already bound as it is
RegisterIfNew(reg, kind, eval) ==
    [k \in (DOMAIN reg) \cup {kind} |-> IF k \in DOMAIN reg THEN reg[k] ELSE eval]

\* (*Engine).Register: the registry after e.evaluators[kind] = eval
Register(reg, kind, eval) ==
    [k \in (DOMAIN reg) \cup {kind} |-> IF k = kind THEN eval ELSE reg[k]]

\* Implementations of Evaluator that callers register: one that fills in
\* every field of the Result it returns, one that returns an error
StampEvaluator(f, r) ==
    Ok([RuleID |-> "evaluator-id", RuleName |-> "evaluator-name",
        Severity |-> "evaluator-severity", Passed |-> ~f.RunsAsRoot,
        Message |-> <<"stamped">>, Description |-> "evaluator-description"])

ErrEvaluator(f, r) == Err(<<"cannot evaluate ", r.ID>>)

\* evaluator.Evaluate(f, &rule): dynamic dispatch on the registered evaluator
EvaluatorEvaluate(ev, f, r) ==
    CASE ev = "UserEvaluator" -> UserEvaluator(f, r)
      [] ev = "SizeEvaluator" -> SizeEvaluator(f, r)
      [] ev = "LabelEvaluator" -> LabelEvaluator(f, r)
      [] ev = "EnvEvaluator" -> EnvEvaluator(f, r)
      [] ev = "BaseEvaluator" -> BaseEvaluator(f, r)
      [] ev = "LayersEvaluator" -> LayersEvaluator(f, r)
      [] ev = "StampEvaluator" -> StampEvaluator(f, r)
      [] ev = "ErrEvaluator" -> ErrEvaluator(f, r)

\* RuleResult with a rule of unknown kind skipped as passed
RuleResultSkipUnknown(reg, f, rule) ==
    IF rule.Kind \notin DOMAIN reg
    THEN [RuleID |-> rule.ID, RuleName |-> rule.Name, Severity |-> rule.Severity,
          Passed |-> TRUE, Message |-> <<"skipped">>, Description |-> ""]
    ELSE LET out == EvaluatorEvaluate(reg[rule.Kind], f, rule)
         IN IF ~out.ok
            THEN [RuleID |-> rule.ID, RuleName |-> rule.Name, Severity |-> rule.Severity,
                  Passed |-> FALSE, Message |-> <<"evaluation error: ">> \o out.err,
                  Description |-> ""]
            ELSE [out.res EXCEPT !.RuleID = rule.ID, !.RuleName = rule.Name,
                                 !.Severity = rule.Severity,
                                 !.Description = rule.Description]

\* RuleResult with the evaluator's Result appended as the evaluator returned it
RuleResultAsReturned(reg, f, rule) ==
    IF rule.Kind \notin DOMAIN reg
    THEN [RuleID |-> rule.ID, RuleName |-> rule.Name, Severity |-> rule.Severity,
          Passed |-> FALSE, Message |-> <<"unknown rule kind: ", rule.Kind>>,
          Description |-> ""]
    ELSE LET out == EvaluatorEvaluate(reg[rule.Kind], f, rule)
         IN IF ~out.ok
            THEN [RuleID |-> rule.ID, RuleName |-> rule.Name, Severity |-> rule.Severity,
                  Passed |-> FALSE, Message |-> <<"evaluation error: ">> \o out.err,
                  Description |-> ""]
            ELSE [out.res EXCEPT !.Description = rule.Description]

\* the Result one iteration of the loop of Evaluate appends for rule
RuleResult(reg, f, rule) ==
    IF rule.Kind \notin DOMAIN reg
    THEN [RuleID |-> rule.ID, RuleName |-> rule.Name, Severity |-> rule.Severity,
          Passed |-> FALSE, Message |-> <<"unknown rule kind: ", rule.Kind>>,
          Description |-> ""]
    ELSE LET out == EvaluatorEvaluate(reg[rule.Kind], f, rule)
         IN IF ~out.ok
            THEN [RuleID |-> rule.ID, RuleName |-> rule.Name, Severity |-> rule.Severity,
                  Passed |-> FALSE, Message |-> <<"evaluation error: ">> \o out.err,
                  Description |-> ""]
            ELSE [out.res EXCEPT !.RuleID = rule.ID, !.RuleName = rule.Name,
                                 !.Severity = rule.Severity,
                                 !.Description = rule.Description]

RECURSIVE EvaluateFromAborting(_, _, _, _)
\* EvaluateFrom with the loop left at the first rule that yields no evaluator Result
EvaluateFromAborting(reg, f, rules, out) ==
    IF rules = <<>> THEN out
    ELSE IF rules[1].Kind \notin DOMAIN reg
            \/ ~EvaluatorEvaluate(reg[rules[1].Kind], f, rules[1]).ok
    THEN out
    ELSE EvaluateFromAborting(reg, f, Tail(rules),
                              Append(out, RuleResult(reg, f, rules[1])))

RECURSIVE EvaluateFrom(_, _, _, _)
\* the loop of Evaluate over the rules not yet visited, out holding the
\* Results appended so far
EvaluateFrom(reg, f, rules, out) ==
    IF rules = <<>> THEN out
    ELSE EvaluateFrom(reg, f, Tail(rules), Append(out, RuleResult(reg, f, rules[1])))

\* (*Engine).Evaluate
Evaluate(reg, f, p) == EvaluateFrom(reg, f, p.Rules, <<>>)

\* CountFailures
CountFailures(rs) == Cardinality({k \in DOMAIN rs : ~rs[k].Passed})

ZeroCounts == [s \in {"critical", "high", "medium", "low", "info"} |-> 0]

RECURSIVE CountFromAll(_, _)
\* CountFrom with passed Results counted as well
CountFromAll(rs, c) ==
    IF rs = <<>> THEN c
    ELSE CountFromAll(Tail(rs),
                      [s \in (DOMAIN c) \cup {rs[1].Severity} |->
                          IF s = rs[1].Severity
                          THEN (IF s \in DOMAIN c THEN c[s] ELSE 0) + 1
                          ELSE c[s]])

RECURSIVE CountFrom(_, _)
\* the loop of CountBySeverity: counts[r.Severity]++ for each failing r
CountFrom(rs, c) ==
    IF rs = <<>> THEN c
    ELSE IF ~rs[1].Passed
    THEN CountFrom(Tail(rs),
                   [s \in (DOMAIN c) \cup {rs[1].Severity} |->
                       IF s = rs[1].Severity
                       THEN (IF s \in DOMAIN c THEN c[s] ELSE 0) + 1
                       ELSE c[s]])
    ELSE CountFrom(Tail(rs), c)

\* CountBySeverity
CountBySeverity(rs) == CountFrom(rs, ZeroCounts)

\* HasCriticalFailures
HasCriticalFailures(rs) == \E k \in DOMAIN rs : ~rs[k].Passed /\ rs[k].Severity = "critical"

----------------------------------------------------------------------------
(* Inputs of the engine: images and policies *)

RECURSIVE SeqsUpTo(_, _)
\* the sequences over S of length at most n
SeqsUpTo(S, n) ==
    IF n = 0 THEN {<<>>}
    ELSE LET shorter == SeqsUpTo(S, n - 1)
         IN shorter \cup {Append(q, x) : q \in {t \in shorter : Len(t) = n - 1}, x \in S}

RemoveAt(q, i) == SubSeq(q, 1, i - 1) \o SubSeq(q, i + 1, Len(q))

B(b) == [t |-> "bool", b |-> b]

I(n) == [t |-> "int", n |-> n]

Fl(tenths) == [t |-> "float", tenths |-> tenths]

S(cs) == [t |-> "str", s |-> cs]

L(items) == [t |-> "list", items |-> items]

Ss(ss) == [t |-> "strs", ss |-> ss]

MkRule(id, name, description, severity, kind, config) ==
    [ID |-> id, Name |-> name, Description |-> description, Severity |-> severity,
     Kind |-> kind, Config |-> config, FailFast |-> FALSE]

MkPolicy(name, rules) ==
    [Name |-> name, Description |-> "", Version |-> "1.0.0",
     Settings |-> [FailOnError |-> FALSE, MinSeverity |-> ""],
     Rules |-> rules]

\* runs as root, no label, a secret in the env, no known base, 5 layers, 5 MB and 7 bytes
RootImage ==
    Extract("", <<>>,
            << <<"D", "B", "_", "P", "W", "=", "x", "1">>, <<"A", "=", "b">> >>,
            <<"u", "n", "k", "n", "o", "w", "n">>, 5, 5 * BytesPerMB + 7)

\* runs as app, labelled, clean env, Alpine base, 2 layers, just under 2 MB
AppImage ==
    Extract("app", << <<<<"m", "n", "t">>, "me">>, <<<<"v", "e", "r">>, "1">> >>,
            << <<"A", "=", "b">> >>,
            <<"A", "l", "p", ":", "3">>, 2, 2 * BytesPerMB - 1)

FactsSet == {RootImage, AppImage}

EngineRules ==
    { MkRule("no-root", "no root", "must not run as root", "critical", "user", <<>>),
      MkRule("size", "size limit", "", "medium", "size",
             << <<"max_mb", I(3)>>, <<"warn_mb", Fl(15)>> >>),
      MkRule("labels", "required labels", "labels for audit", "low", "label",
             << <<"required", L(<<S(<<"m", "n", "t">>), I(1), S(<<"v", "e", "r">>)>>)>> >>),
      MkRule("secrets", "no secrets", "no secrets in env", "high", "env",
             << <<"deny_patterns", L(<<S(<<"(", "?", "i", ")", "p", "w">>)>>)>> >>),
      MkRule("bad-last", "bad pattern last", "second pattern is malformed", "high", "env",
             << <<"deny_patterns", L(<<S(<<"P", "W">>), S(<<"[", "a">>)>>)>> >>),
      MkRule("bad-first", "bad pattern first", "", "low", "env",
             << <<"deny_patterns", Ss(<< <<"[">>, <<"A">> >>)>> >>),
      MkRule("base", "approved base", "", "info", "base",
             << <<"allowed_prefixes", L(<<S(<<"a", "l", "p">>)>>)>>,
                <<"allow_unknown", B(FALSE)>> >>),
      MkRule("layers", "layer count", "keep images flat", "low", "layers",
             << <<"max_layers", I(3)>>, <<"warn_layers", I(1)>> >>),
      MkRule("made-up", "made up", "a kind nobody registered", "high",
             "totally-made-up", <<>>),
      MkRule("custom", "custom check", "site check", "medium", "custom", <<>>) }

EnginePolicies == {MkPolicy("engine", rs) : rs \in SeqsUpTo(EngineRules, MaxRules)}

\* the bindings callers register: a new kind, and a built-in kind rebound
RegChoices ==
    {<<"custom", "StampEvaluator">>, <<"custom", "ErrEvaluator">>, <<"user", "StampEvaluator">>}

\* the variables a specification does not use
IdleEngine == evaluators = <<>> /\ calls = <<>>

IdleValidate == verr = NoError

IdleCount == results = <<>> /\ counts = <<>> /\ critical = FALSE

\* no Report built yet
NoReport == [built |-> FALSE]

\* nothing written yet
NoOutput == [kind |-> "none"]

IdleReport ==
    /\ imageName = ""
    /\ format = ""
    /\ report = NoReport
    /\ output = NoOutput

\* no image loaded yet
NoImage == [loaded |-> FALSE]

\* cache.Get found nothing
NoCached == [found |-> FALSE]

\* the process is still running
NoExit == [exited |-> FALSE]

IdleScan ==
    /\ image = NoImage
    /\ useCache = FALSE
    /\ cacheFiles = <<>>
    /\ digest = ""
    /\ cached = NoCached
    /\ exit = NoExit

\* no accessor called yet
NoGot == [called |-> FALSE]

IdleAux == callers = <<>> /\ got = NoGot /\ latest = <<>>

IdleRun ==
    /\ policyPath = ""
    /\ files = <<>>
    /\ embedded = <<>>
    /\ validated = FALSE
    /\ runErr = ""
    /\ IdleReport
    /\ IdleScan

----------------------------------------------------------------------------
(* Spec: one engine, one image, one policy *)

Init ==
    /\ pc = "new"
    /\ facts \in FactsSet
    /\ policy \in EnginePolicies
    /\ IdleEngine
    /\ IdleValidate
    /\ IdleAux
    /\ IdleCount
    /\ IdleRun

\* engine := rules.NewEngine()
NewEngineCall ==
    /\ pc = "new"
    /\ pc' = "ready"
    /\ evaluators' = NewEngine
    /\ UNCHANGED <<facts, policy, calls, verr, results, counts, critical,
                   policyPath, files, embedded, validated, runErr, reportVars, scanVars, auxVars>>

\* engine.Register(kind, eval)
RegisterCall ==
    /\ pc = "ready"
    /\ \E c \in RegChoices :
           /\ evaluators' = Register(evaluators, c[1], c[2])
           /\ latest' = [k \in (DOMAIN latest) \cup {c[1]} |->
                             IF k = c[1] THEN c[2] ELSE latest[k]]
    /\ calls' = <<>>
    /\ UNCHANGED <<pc, facts, policy, verr, results, counts, critical,
                   policyPath, files, embedded, validated, runErr, reportVars, scanVars,
                   callers, got>>

\* EvaluateCall with results kept in the engine and appended to by every call
EvaluateCallKeepingResults ==
    /\ pc = "ready"
    /\ Len(calls) < MaxCalls
    /\ calls' = Append(calls,
                       EvaluateFrom(evaluators, facts, policy.Rules,
                                    IF calls = <<>> THEN <<>> ELSE calls[Len(calls)]))
    /\ UNCHANGED <<pc, facts, policy, evaluators, verr, results, counts, critical,
                   policyPath, files, embedded, validated, runErr, reportVars, scanVars, auxVars>>

\* EvaluateCall with the base image of the Facts lower-cased in place
EvaluateCallLoweringBase ==
    /\ pc = "ready"
    /\ Len(calls) < MaxCalls
    /\ calls' = Append(calls, Evaluate(evaluators, facts, policy))
    /\ facts' = [facts EXCEPT !.BaseImage = ToLower(@)]
    /\ UNCHANGED <<pc, policy, evaluators, verr, results, counts, critical,
                   policyPath, files, embedded, validated, runErr, reportVars, scanVars, auxVars>>

\* engine.Evaluate(facts, policy)
EvaluateCall ==
    /\ pc = "ready"
    /\ Len(calls) < MaxCalls
    /\ calls' = Append(calls, Evaluate(evaluators, facts, policy))
    /\ UNCHANGED <<pc, facts, policy, evaluators, verr, results, counts, critical,
                   policyPath, files, embedded, validated, runErr, reportVars, scanVars, auxVars>>

Next == NewEngineCall \/ RegisterCall \/ EvaluateCall

Spec == Init /\ [][Next]_vars

----------------------------------------------------------------------------
(* The engine's claims, under Spec *)

Rules == policy.Rules

UnknownKind(i) == Rules[i].Kind \notin DOMAIN evaluators

\* rule i reaches an evaluator that signals an error
Erring(i) ==
    /\ ~UnknownKind(i)
    /\ ~EvaluatorEvaluate(evaluators[Rules[i].Kind], facts, Rules[i]).ok

\* C1: every call of Evaluate returns as many Results as the policy has rules,
\* and the i-th Result is the one the i-th rule yields: no rule is skipped,
\* reordered or cut off by an unknown kind or an evaluator error
C1_OneResultPerRule ==
    \A c \in DOMAIN calls :
        /\ Len(calls[c]) = Len(Rules)
        /\ \A i \in DOMAIN Rules : calls[c][i] = RuleResult(evaluators, facts, Rules[i])

\* a call returned for a policy whose first rule is of unknown kind and whose
\* second rule makes its evaluator fail
C1_Witness ==
    /\ Len(calls) >= 1
    /\ Len(Rules) = 2
    /\ UnknownKind(1)
    /\ Erring(2)
    /\ Len(calls[1]) = 2

C3_UnknownKindIsolated ==
    \A c \in DOMAIN calls :
        /\ Len(calls[c]) = Len(Rules)
        /\ \A i \in DOMAIN Rules :
               UnknownKind(i) =>
                   /\ ~calls[c][i].Passed
                   /\ \E k \in DOMAIN calls[c][i].Message :
                          calls[c][i].Message[k] = Rules[i].Kind
                   /\ RemoveAt(calls[c], i)
                          = Evaluate(evaluators, facts,
                                     [policy EXCEPT !.Rules = RemoveAt(Rules, i)])

\* a call returned for a policy with a rule of unknown kind before a rule of a
\* registered kind, or after one
C3_Witness ==
    /\ Len(calls) >= 1
    /\ Len(Rules) = 2
    /\ \E i, j \in DOMAIN Rules : i # j /\ UnknownKind(i) /\ ~UnknownKind(j) /\ ~Erring(j)
    /\ Len(calls[1]) = 2

\* the deny patterns of an env rule
DenyPatterns(r) == GetConfigStringSlice(r, "deny_patterns")

Malformed(r) == {k \in DOMAIN DenyPatterns(r) : ~RegexpCompile(DenyPatterns(r)[k]).ok}

\* C4: an evaluator error becomes a failing Result whose message embeds the
\* error, and the other rules are still evaluated; the env evaluator signals an
\* error whenever some deny pattern, wherever it stands, does not compile
C4_ErrorBecomesFailure ==
    \A c \in DOMAIN calls :
        /\ Len(calls[c]) = Len(Rules)
        /\ \A i \in DOMAIN Rules :
               /\ Erring(i) =>
                      /\ ~calls[c][i].Passed
                      /\ calls[c][i].Message
                             = <<"evaluation error: ">>
                               \o EvaluatorEvaluate(evaluators[Rules[i].Kind], facts,
                                                    Rules[i]).err
               /\ (Rules[i].Kind = "env" /\ Malformed(Rules[i]) # {}) =>
                      /\ ~calls[c][i].Passed
                      /\ calls[c][i].Message[1] = "evaluation error: "
                      /\ \E k \in Malformed(Rules[i]), m \in DOMAIN calls[c][i].Message :
                             calls[c][i].Message[m] = Str(DenyPatterns(Rules[i])[k])

\* a call returned for a policy whose first rule is an env rule with a
\* malformed pattern after a well-formed one, followed by another rule
C4_Witness ==
    /\ Len(calls) >= 1
    /\ Len(Rules) = 2
    /\ Rules[1].Kind = "env"
    /\ Malformed(Rules[1]) # {}
    /\ 1 \notin Malformed(Rules[1])
    /\ ~Erring(2)
    /\ Len(calls[1]) = 2

\* C5: on every path of the loop the Result carries the id, name and severity
\* of its rule, whatever the evaluator put there
C5_MetadataFromRule ==
    \A c \in DOMAIN calls :
        /\ Len(calls[c]) = Len(Rules)
        /\ \A i \in DOMAIN Rules :
               /\ calls[c][i].RuleID = Rules[i].ID
               /\ calls[c][i].RuleName = Rules[i].Name
               /\ calls[c][i].Severity = Rules[i].Severity

\* a call returned for a rule whose evaluator labelled its Result itself
C5_Witness ==
    /\ Len(calls) >= 1
    /\ \E i \in DOMAIN Rules :
           /\ ~UnknownKind(i)
           /\ evaluators[Rules[i].Kind] = "StampEvaluator"
           /\ EvaluatorEvaluate("StampEvaluator", facts, Rules[i]).res.RuleID # Rules[i].ID
           /\ Len(calls[1]) = Len(Rules)

\* C6: every Result carries the description of its rule, the failing Results
\* made up for unknown kinds and evaluator errors included
C6_DescriptionFromRule ==
    \A c \in DOMAIN calls :
        \A i \in DOMAIN calls[c] : calls[c][i].Description = Rules[i].Description

----------------------------------------------------------------------------
(* SpecValidate: Validate applied to a parsed policy *)

ValidateRuleSet ==
    {MkRule(id, name, "", severity, kind, <<>>) :
        id \in {"", "r1"}, name \in {"", "n"}, kind \in {"", "user"},
        severity \in {"high", "bogus"}}
    \cup {MkRule("r1", "n", "", severity, "user", <<>>) :
             severity \in Severities \cup {"", "HIGH"}}
    \cup {MkRule("r2", "n", "", "low", "size", <<>>)}

ValidatePolicies ==
    {MkPolicy(name, rs) : name \in {"", "p"}, rs \in SeqsUpTo(ValidateRuleSet, MaxRules)}

InitValidate ==
    /\ pc = "parsed"
    /\ policy \in ValidatePolicies
    /\ facts = RootImage
    /\ IdleEngine
    /\ IdleValidate
    /\ IdleAux
    /\ IdleCount
    /\ IdleRun

\* err := p.Validate()
ValidateCall ==
    /\ pc = "parsed"
    /\ pc' = "validated"
    /\ verr' = Validate(policy)
    /\ UNCHANGED <<facts, policy, evaluators, calls, results, counts, critical,
                   policyPath, files, embedded, validated, runErr, reportVars, scanVars, auxVars>>

NextValidate == ValidateCall

SpecValidate == InitValidate /\ [][NextValidate]_vars

RuleOk(r) == r.ID # "" /\ r.Name # "" /\ r.Kind # "" /\ r.Severity \in Severities

\* the first rule that fails a check
FirstBad == CHOOSE i \in DOMAIN Rules :
                /\ ~RuleOk(Rules[i])
                /\ \A j \in 1..(i - 1) : RuleOk(Rules[j])

\* the error the checks, taken in the documented order, end in
FirstFailure ==
    IF policy.Name = "" THEN <<"policy must have a name">>
    ELSE IF Rules = <<>> THEN <<"policy must have at least one rule">>
    ELSE LET r == Rules[FirstBad]
         IN CASE r.ID = "" -> <<"rule ", ToString(FirstBad - 1), " missing ID">>
              [] r.ID # "" /\ r.Name = "" -> <<"rule ", r.ID, " missing name">>
              [] r.ID # "" /\ r.Name # "" /\ r.Kind = "" -> <<"rule ", r.ID, " missing kind">>
              [] OTHER -> <<"rule ", r.ID, " has invalid severity: ", r.Severity>>

\* C8: Validate returns nil exactly when the name is set, there is a rule and
\* every rule has id, name, kind and one of the five severities; otherwise its
\* error is that of the first failing check in the order name, rule count,
\* then rule by rule id, name, kind, severity, and a rule's error names the
\* rule (its index when the id is missing, else its id) and the field
C8_ValidateFirstFailure ==
    pc = "validated" =>
        /\ verr.ok <=> (/\ policy.Name # ""
                        /\ Len(Rules) >= 1
                        /\ \A i \in DOMAIN Rules : RuleOk(Rules[i]))
        /\ ~verr.ok => verr.msg = FirstFailure

\* Validate has rejected a policy whose first rule is well-formed and whose
\* second rule lacks both name and kind
C8_Witness ==
    /\ pc = "validated"
    /\ ~verr.ok
    /\ policy.Name # ""
    /\ Len(Rules) = 2
    /\ RuleOk(Rules[1])
    /\ Rules[2].ID # "" /\ Rules[2].Name = "" /\ Rules[2].Kind = ""

\* C9: a policy that passes validation has no two rules with the same id
C9_ValidatedIdsUnique ==
    (pc = "validated" /\ verr.ok) =>
        \A i, j \in DOMAIN Rules : i # j => Rules[i].ID # Rules[j].ID

----------------------------------------------------------------------------
(* SpecCount: the aggregate counters applied to a Result sequence *)

ResultSet ==
    {[RuleID |-> "r", RuleName |-> "n", Severity |-> severity, Passed |-> passed,
      Message |-> <<"m">>, Description |-> ""] :
        severity \in Severities \cup {"bogus"}, passed \in BOOLEAN}

InitCount ==
    /\ pc = "results"
    /\ results \in SeqsUpTo(ResultSet, MaxResults)
    /\ counts = <<>>
    /\ critical = FALSE
    /\ facts = RootImage
    /\ policy = NoPolicy
    /\ IdleEngine
    /\ IdleValidate
    /\ IdleAux
    /\ IdleRun

\* rules.CountBySeverity(results) and rules.HasCriticalFailures(results)
CountCall ==
    /\ pc = "results"
    /\ pc' = "counted"
    /\ counts' = CountBySeverity(results)
    /\ critical' = HasCriticalFailures(results)
    /\ UNCHANGED <<facts, policy, evaluators, calls, verr, results,
                   policyPath, files, embedded, validated, runErr, reportVars, scanVars, auxVars>>

NextCount == CountCall

SpecCount == InitCount /\ [][NextCount]_vars

RECURSIVE Total(_, _)
\* the sum of c over the keys in K
Total(c, K) ==
    IF K = {} THEN 0
    ELSE LET k == CHOOSE x \in K : TRUE IN c[k] + Total(c, K \ {k})

Failing(severity) == {k \in DOMAIN results : ~results[k].Passed /\ results[k].Severity = severity}

\* C10: the map of CountBySeverity has the five severities, gives each the
\* number of failed Results of that severity, counts every failed Result once
\* and no passed Result, and HasCriticalFailures is true exactly when the
\* count of critical is at least 1
C10_CountsBySeverity ==
    pc = "counted" =>
        /\ Severities \subseteq DOMAIN counts
        /\ \A s \in Severities : counts[s] = Cardinality(Failing(s))
        /\ Total(counts, DOMAIN counts)
               = Cardinality({k \in DOMAIN results : ~results[k].Passed})
        /\ critical <=> counts["critical"] >= 1

\* the counters have run on a sequence with a passed and a failed critical
\* Result, a second failed Result and no failed info Result
C10_Witness ==
    /\ pc = "counted"
    /\ Len(results) = 3
    /\ \E i, j \in DOMAIN results :
           /\ results[i].Passed /\ results[i].Severity = "critical"
           /\ ~results[j].Passed /\ results[j].Severity = "critical"
    /\ Cardinality({k \in DOMAIN results : ~results[k].Passed}) = 2
    /\ counts["info"] = 0
    /\ critical

----------------------------------------------------------------------------
(* internal/image: images and the on-disk cache.  An image is                *)
(* [Reference, Config, Manifest, Layers]; the cache directory is a function  *)
(* from file names to the CachedResult each file holds.                      *)

RECURSIVE SumSizes(_)
\* (*Image).Size: the layer sizes added up
SumSizes(layers) ==
    IF layers = <<>> THEN 0 ELSE layers[1].Size + SumSizes(Tail(layers))

\* (*Cache).cachePath: the file named after the SHA-256 of the key
cachePath(key) == [sha256 |-> key]

\* (*Cache).Get
CacheGet(dir, enabled, key) ==
    IF ~enabled THEN NoCached
    ELSE IF cachePath(key) \notin DOMAIN dir THEN NoCached
    ELSE [found |-> TRUE, result |-> dir[cachePath(key)]]

\* (*Cache).Put at the instant now: the directory afterwards
CachePut(dir, enabled, key, result, now) ==
    IF ~enabled THEN dir
    ELSE [path \in (DOMAIN dir) \cup {cachePath(key)} |->
             IF path = cachePath(key)
             THEN [result EXCEPT !.CachedAt = now, !.Digest = key]
             ELSE dir[path]]

\* ImageToCache
ImageToCache(img) ==
    [Digest |-> "",
     ImageRef |-> img.Reference,
     Config |-> img.Config,
     Manifest |-> img.Manifest,
     Size |-> SumSizes(img.Layers),
     LayerInfo |-> img.Layers,
     CachedAt |-> 0]

\* run: the digest it uses as cache key
RunDigest(img) ==
    IF Len(img.Manifest.Layers) > 0 THEN img.Manifest.Layers[1]
    ELSE img.Config.RootFS.Type

----------------------------------------------------------------------------
(* internal/report: the Report and its three renderings.  Text output is a  *)
(* sequence of lines, a line the sequence of the pieces Fprintf puts        *)
(* together; the JSON documents are records with the encoded members.       *)

RECURSIVE TallyPassedOnly(_, _)
\* Tally with the failing Results left uncounted
TallyPassedOnly(rs, t) ==
    IF rs = <<>> THEN t
    ELSE IF rs[1].Passed
    THEN TallyPassedOnly(Tail(rs), [t EXCEPT !.Passed = @ + 1])
    ELSE TallyPassedOnly(Tail(rs), t)

RECURSIVE Tally(_, _)
\* the loop of New: r.Passed++ or r.Failed++ for each Result
Tally(rs, t) ==
    IF rs = <<>> THEN t
    ELSE IF rs[1].Passed
    THEN Tally(Tail(rs), [t EXCEPT !.Passed = @ + 1])
    ELSE Tally(Tail(rs), [t EXCEPT !.Failed = @ + 1])

\* report.New, time.Now() returning now
ReportNew(name, f, rs, p, now) ==
    LET t == Tally(rs, [Passed |-> 0, Failed |-> 0])
    IN [built |-> TRUE,
        ImageName |-> name,
        Facts |-> f,
        Results |-> rs,
        Policy |-> p,
        Timestamp |-> now,
        TotalRules |-> Len(rs),
        Passed |-> t.Passed,
        Failed |-> t.Failed,
        BySeverity |-> CountBySeverity(rs)]

\* Time.Format(time.RFC3339) of the instant now seconds into the scan's minute
RFC3339(now) ==
    <<"2024-01-01T00:00:", (IF now < 10 THEN "0" ELSE ""), ToString(now), "Z">>

\* strings.ToUpper of a severity
SeverityToUpper(severity) ==
    CASE severity = "critical" -> "CRITICAL"
      [] severity = "high" -> "HIGH"
      [] severity = "medium" -> "MEDIUM"
      [] severity = "low" -> "LOW"
      [] severity = "info" -> "INFO"
      [] severity = "urgent" -> "URGENT"
      [] severity = "bogus" -> "BOGUS"
      [] OTHER -> severity

\* one line of "Failures by severity:", printed if the count is positive
SeverityLine(r, label, severity) ==
    IF r.BySeverity[severity] > 0
    THEN << <<label, ToString(r.BySeverity[severity])>> >>
    ELSE <<>>

\* Text: the "Failures by severity:" block
BreakdownLines(r) ==
    IF r.Failed > 0
    THEN << <<"Failures by severity:">> >>
         \o SeverityLine(r, "  Critical: ", "critical")
         \o SeverityLine(r, "  High:     ", "high")
         \o SeverityLine(r, "  Medium:   ", "medium")
         \o SeverityLine(r, "  Low:      ", "low")
         \o << <<"">> >>
    ELSE <<>>

RECURSIVE FailureLines(_)
\* Text: the lines of each failing Result, in Result order
FailureLines(rs) ==
    IF rs = <<>> THEN <<>>
    ELSE IF ~rs[1].Passed
    THEN << <<"[", SeverityToUpper(rs[1].Severity), "] ", rs[1].RuleName>>,
            <<"  ID:      ", rs[1].RuleID>>,
            <<"  Message: ">> \o rs[1].Message >>
         \o (IF rs[1].Description # "" THEN << <<"  Detail:  ", rs[1].Description>> >> ELSE <<>>)
         \o << <<"">> >>
         \o FailureLines(Tail(rs))
    ELSE FailureLines(Tail(rs))

RECURSIVE PassedLines(_)
\* Text: one line per passing Result, in Result order
PassedLines(rs) ==
    IF rs = <<>> THEN <<>>
    ELSE IF rs[1].Passed
    THEN << <<"+ ", rs[1].RuleName, ": ">> \o rs[1].Message >> \o PassedLines(Tail(rs))
    ELSE PassedLines(Tail(rs))

\* (*Report).Text; the tick is written "+" and the cross "x"
Text(r) ==
    << <<"BoltGuard Report">>, <<"================">>, <<"">>,
       <<"Image:    ", r.ImageName>>,
       <<"Policy:   ", r.Policy.Name, " (v", r.Policy.Version, ")">>,
       <<"Scanned:  ">> \o RFC3339(r.Timestamp), <<"">>,
       <<"Summary">>, <<"-------">>,
       <<"Total checks: ", ToString(r.TotalRules)>>,
       <<"  Passed:     ", ToString(r.Passed)>>,
       <<"  Failed:     ", ToString(r.Failed)>>, <<"">> >>
    \o BreakdownLines(r)
    \o (IF r.Failed > 0
        THEN << <<"Failures">>, <<"--------">> >> \o FailureLines(r.Results)
        ELSE <<>>)
    \o (IF r.Passed > 0
        THEN << <<"Passed Checks">>, <<"-------------">> >> \o PassedLines(r.Results)
             \o << <<"">> >>
        ELSE <<>>)
    \o (IF r.Failed = 0
        THEN << <<"+ All checks passed">> >>
        ELSE << <<"x ", ToString(r.Failed), " check(s) failed">> >>)

\* (*Report).JSON
JSON(r) ==
    [image |-> r.ImageName,
     policy |-> r.Policy.Name,
     version |-> r.Policy.Version,
     timestamp |-> RFC3339(r.Timestamp),
     summary |-> [total |-> r.TotalRules, passed |-> r.Passed, failed |-> r.Failed,
                  by_severity |-> r.BySeverity],
     results |-> r.Results]

\* severityToLevel
severityToLevel(severity) ==
    CASE severity \in {"critical", "high"} -> "error"
      [] severity = "medium" -> "warning"
      [] severity = "low" -> "note"
      [] OTHER -> "none"

\* (*Report).buildSarifRules
buildSarifRules(r) ==
    [k \in DOMAIN r.Policy.Rules |->
        [id |-> r.Policy.Rules[k].ID,
         name |-> r.Policy.Rules[k].Name,
         shortDescription |-> r.Policy.Rules[k].Name,
         fullDescription |-> r.Policy.Rules[k].Description,
         level |-> severityToLevel(r.Policy.Rules[k].Severity)]]

RECURSIVE SarifResultsOfAll(_, _)
\* SarifResultsOf with the passing Results reported as well
SarifResultsOfAll(rs, uri) ==
    IF rs = <<>> THEN <<>>
    ELSE << [ruleId |-> rs[1].RuleID,
             level |-> severityToLevel(rs[1].Severity),
             message |-> rs[1].Message,
             locations |-> <<uri>>] >>
         \o SarifResultsOfAll(Tail(rs), uri)

RECURSIVE SarifResultsOf(_, _)
\* the loop of buildSarifResults: passing Results are skipped
SarifResultsOf(rs, uri) ==
    IF rs = <<>> THEN <<>>
    ELSE IF rs[1].Passed THEN SarifResultsOf(Tail(rs), uri)
    ELSE << [ruleId |-> rs[1].RuleID,
             level |-> severityToLevel(rs[1].Severity),
             message |-> rs[1].Message,
             locations |-> <<uri>>] >>
         \o SarifResultsOf(Tail(rs), uri)

\* (*Report).buildSarifResults; a nil slice and an empty one are both <<>>
buildSarifResults(r) == SarifResultsOf(r.Results, r.ImageName)

\* (*Report).SARIF: the one run of the document
SARIF(r) ==
    [version |-> "2.1.0",
     driver |-> [name |-> "BoltGuard", version |-> "0.1.0", rules |-> buildSarifRules(r)],
     artifacts |-> <<[uri |-> r.ImageName, text |-> <<"Container image: ", r.ImageName>>]>>,
     results |-> buildSarifResults(r)]

----------------------------------------------------------------------------
(* SpecRun: a scan (cmd/boltguard run), from the loading of its policy on *)

ExplicitPath == "custom.yaml"

Candidates ==
    <<"policies/default.yaml", "/etc/boltguard/default.yaml",
      "$HOME/.config/boltguard/default.yaml">>

Unreadable == [kind |-> "unreadable"]

MalformedDoc == [kind |-> "malformed"]

Yaml(p) == [kind |-> "yaml", policy |-> p]

GoodPolicy == MkPolicy("site", <<MkRule("no-root", "no root", "", "critical", "user", <<>>)>>)

BadPolicy == MkPolicy("site", <<MkRule("no-root", "no root", "", "urgent", "user", <<>>)>>)

\* what a policy file may hold
Documents == {MalformedDoc, Yaml(GoodPolicy), Yaml(BadPolicy)}

\* the document doc as the file path holds it: a policy is named after its file
At(doc, path) ==
    IF doc.kind = "yaml" THEN Yaml([doc.policy EXCEPT !.Name = path]) ELSE doc

\* defaults/default.yaml as the build embeds it: a well-formed policy
DefaultPolicy ==
    MkPolicy("BoltGuard Default Policy",
             <<MkRule("no-root", "no root", "", "high", "user", <<>>),
               MkRule("layers", "layer count", "", "low", "layers",
                      << <<"max_layers", I(3)>> >>)>>)

\* values of the -format flag: the three named formats and one that is none of them
Formats == {"text", "json", "sarif", "yaml"}

Paths == {ExplicitPath} \cup {Candidates[k] : k \in DOMAIN Candidates}

RECURSIVE LoadFirstGood(_, _, _)
\* the first of the candidates from k on that loads, the embedded default if none does
LoadFirstGood(fs, doc, k) ==
    IF k > Len(Candidates) THEN LoadDefault(doc)
    ELSE IF Candidates[k] \in DOMAIN fs /\ LoadFromFile(fs, Candidates[k]).err = ""
    THEN LoadFromFile(fs, Candidates[k])
    ELSE LoadFirstGood(fs, doc, k + 1)

\* loadPolicy falling through to the next source when a policy file does not load
LoadPolicyFallingThrough(fs, doc, path) ==
    IF path # "" THEN LoadFromFile(fs, path)
    ELSE LoadFirstGood(fs, doc, 1)

\* loadPolicy
LoadPolicy(fs, doc, path) ==
    IF path # "" THEN LoadFromFile(fs, path)
    ELSE IF \E k \in DOMAIN Candidates : Candidates[k] \in DOMAIN fs
    THEN LoadFromFile(fs, Candidates[CHOOSE k \in DOMAIN Candidates :
                                         /\ Candidates[k] \in DOMAIN fs
                                         /\ \A j \in 1..(k - 1) : Candidates[j] \notin DOMAIN fs])
    ELSE LoadDefault(doc)

InitRun ==
    /\ pc = "extracted"
    /\ facts \in FactsSet
    /\ policyPath \in {"", ExplicitPath}
    /\ \E existing \in SUBSET Paths :
           \E holds \in [existing -> Documents \cup {Unreadable}] :
               files = [path \in existing |-> At(holds[path], path)]
    /\ embedded = Yaml(DefaultPolicy)
    /\ policy = NoPolicy
    /\ validated = FALSE
    /\ runErr = ""
    /\ imageName = "app:1"
    /\ format \in Formats
    /\ report = NoReport
    /\ output = NoOutput
    /\ IdleScan
    /\ IdleEngine
    /\ IdleValidate
    /\ IdleAux
    /\ IdleCount

\* run: pol, err := loadPolicy(policyPath), and the return on its error
RunLoadPolicy ==
    /\ pc = "extracted"
    /\ LET loaded == LoadPolicy(files, embedded, policyPath)
       IN /\ policy' = loaded.policy
          /\ validated' = loaded.ranValidate
          /\ runErr' = IF loaded.err = "" THEN "" ELSE "failed to load policy"
          /\ pc' = IF loaded.err = "" THEN "loaded" ELSE "failed"
    /\ UNCHANGED <<facts, evaluators, calls, verr, results, counts, critical,
                   policyPath, files, embedded, reportVars, scanVars, auxVars>>

\* run: engine := rules.NewEngine(); results := engine.Evaluate(extracted, pol),
\* and the best-effort cache.Put that follows
RunEvaluate ==
    /\ pc = "loaded"
    /\ pc' = "evaluated"
    /\ evaluators' = NewEngine
    /\ calls' = <<Evaluate(NewEngine, facts, policy)>>
    /\ IF useCache
       THEN \E now \in 0..MaxClock :
                cacheFiles' = CachePut(cacheFiles, TRUE, digest, ImageToCache(image), now)
       ELSE cacheFiles' = cacheFiles
    /\ UNCHANGED <<facts, policy, verr, results, counts, critical,
                   policyPath, files, embedded, validated, runErr, reportVars,
                   image, useCache, digest, cached, exit, auxVars>>

\* run: rep := report.New(imageName, extracted, results, pol)
RunReport ==
    /\ pc = "evaluated"
    /\ pc' = "reported"
    /\ \E now \in 0..MaxClock : report' = ReportNew(imageName, facts, calls[1], policy, now)
    /\ UNCHANGED <<facts, policy, evaluators, calls, verr, results, counts, critical,
                   policyPath, files, embedded, validated, runErr,
                   imageName, format, output, scanVars, auxVars>>

\* run: the switch on format
RunRender ==
    /\ pc = "reported"
    /\ pc' = "done"
    /\ output' = CASE format = "json" -> [kind |-> "json", doc |-> JSON(report)]
                    [] format = "sarif" -> [kind |-> "sarif", doc |-> SARIF(report)]
                    [] OTHER -> [kind |-> "text", lines |-> Text(report)]
    /\ UNCHANGED <<facts, policy, evaluators, calls, verr, results, counts, critical,
                   policyPath, files, embedded, validated, runErr,
                   imageName, format, report, scanVars, auxVars>>

\* main: run has returned; os.Exit(1) on its error, a normal return otherwise
MainExit ==
    /\ pc \in {"failed", "done"}
    /\ pc' = "exited"
    /\ exit' = [exited |-> TRUE, code |-> IF runErr # "" THEN 1 ELSE 0]
    /\ UNCHANGED <<facts, policy, evaluators, calls, verr, results, counts, critical,
                   policyPath, files, embedded, validated, runErr, reportVars,
                   image, useCache, cacheFiles, digest, cached, auxVars>>

NextRun == RunLoadPolicy \/ RunEvaluate \/ RunReport \/ RunRender \/ MainExit

SpecRun == InitRun /\ [][NextRun]_vars

\* C7: whatever its source, the policy a scan evaluates has been through
\* Validate after parsing, and Validate accepted it
C7_ValidatedBeforeEvaluate ==
    pc = "evaluated" => (validated /\ Validate(policy).ok)

----------------------------------------------------------------------------
(* SpecRule: one rule of a built-in kind judged against one image *)

\* the config bags that leave key out or give it one of vals
Opt(key, vals) == {<<>>} \cup {<< <<key, v>> >> : v \in vals}

Mnt == <<"m", "n", "t">>

Ver == <<"v", "e", "r">>

New == <<"n", "e", "w">>

Secret == <<"D", "B", "_", "P", "W", "=", "x", "1">>

Harmless == <<"A", "=", "b">>

NoEquals == <<"p", "w">>

TwoEquals == <<"K", "=", "P", "W", "=", "z">>

Alpine == <<"A", "l", "p", ":", "3">>

UnknownBase == <<"u", "n", "k", "n", "o", "w", "n">>

UserCases ==
    {<<Extract(user, <<>>, <<>>, Alpine, 1, BytesPerMB),
       MkRule("no-root", "no root", "", "high", "user", config)>> :
        user \in {"", "root", "0", "app", "0:0", "Root"},
        config \in Opt("allow_root", {B(TRUE), B(FALSE), S(<<"t", "r", "u", "e">>)})}

SizeCases ==
    {<<Extract("app", <<>>, <<>>, Alpine, 1, mb * BytesPerMB + extra),
       MkRule("size", "size limit", "", "medium", "size", max \o warn)>> :
        mb \in 0..MaxSizeMB, extra \in {0, 1, BytesPerMB - 1},
        max \in Opt("max_mb", {I(0), I(3), I(-1), Fl(39), B(TRUE)}),
        warn \in Opt("warn_mb", {I(0), I(2), I(4), I(-1)})}

LabelCases ==
    {<<Extract("app", labels, <<>>, Alpine, 1, BytesPerMB),
       MkRule("labels", "required labels", "", "low", "label", config)>> :
        labels \in {<<>>, << <<Mnt, "me">> >>, << <<Ver, "1">>, <<Mnt, "me">> >>},
        config \in Opt("required",
                       {L(<<>>), L(<<S(Mnt), S(Ver)>>), L(<<S(Ver), S(Mnt)>>),
                        L(<<S(New), I(1), S(Mnt), S(Ver)>>), Ss(<<Ver, New, Ver>>),
                        S(Mnt)})}

EnvCases ==
    {<<Extract("app", <<>>, env, Alpine, 1, BytesPerMB),
       MkRule("secrets", "no secrets", "", "critical", "env", config)>> :
        env \in {<<>>, <<Harmless>>, <<Secret>>, <<Harmless, Secret, NoEquals>>,
                 <<TwoEquals, Secret>>},
        config \in Opt("deny_patterns",
                       {L(<<>>), L(<<S(<<"(", "?", "i", ")", "p", "w">>)>>),
                        L(<<S(<<"P", "W">>), S(<<"A">>)>>),
                        L(<<S(<<"x", "1">>)>>), L(<<S(<<"W", "=", "x">>)>>),
                        Ss(<< <<"z", "z">>, <<"=">> >>),
                        L(<<S(<<"P", "W">>), S(<<"[">>)>>)})}

BaseCases ==
    {<<Extract("app", <<>>, <<>>, base, 1, BytesPerMB),
       MkRule("base", "approved base", "", "medium", "base", prefixes \o unknown)>> :
        base \in {<<>>, UnknownBase, Alpine, <<"d", "e", "b">>, <<"U", "n", "k", "n", "o", "w", "n">>},
        prefixes \in Opt("allowed_prefixes",
                         {L(<<>>), L(<<S(<<"a", "l", "p">>)>>), L(<<S(<<"A", "L", "P">>)>>),
                          L(<<S(<<"x">>), S(<<"d", "e">>)>>), L(<<S(<<"a", "l", "p", "i", "n", "e">>)>>),
                          L(<<S(<<"u", "n">>)>>)}),
        unknown \in Opt("allow_unknown", {B(TRUE), B(FALSE)})}

LayersCases ==
    {<<Extract("app", <<>>, <<>>, Alpine, n, BytesPerMB),
       MkRule("layers", "layer count", "", "low", "layers", max \o warn)>> :
        n \in 0..MaxLayerCount,
        max \in Opt("max_layers", {I(0), I(3), I(-1), Fl(25)}),
        warn \in Opt("warn_layers", {I(0), I(1), I(4)})}

RuleCases == UserCases \cup SizeCases \cup LabelCases \cup EnvCases \cup BaseCases \cup LayersCases

InitRule ==
    /\ pc = "rule"
    /\ \E case \in RuleCases :
           /\ facts = case[1]
           /\ policy = MkPolicy("rule", <<case[2]>>)
    /\ IdleEngine
    /\ IdleValidate
    /\ IdleAux
    /\ IdleCount
    /\ IdleRun

\* rules.NewEngine().Evaluate(facts, policy)
JudgeRule ==
    /\ pc = "rule"
    /\ pc' = "judged"
    /\ evaluators' = NewEngine
    /\ calls' = <<Evaluate(NewEngine, facts, policy)>>
    /\ UNCHANGED <<facts, policy, verr, results, counts, critical,
                   policyPath, files, embedded, validated, runErr, reportVars, scanVars, auxVars>>

NextRule == JudgeRule

SpecRule == InitRule /\ [][NextRule]_vars

\* the rule judged and its Result
TheRule == Rules[1]

TheResult == calls[1][1]

Judged(kind) == pc = "judged" /\ TheRule.Kind = kind

\* the message has piece among its pieces
Says(piece) == \E k \in DOMAIN TheResult.Message : TheResult.Message[k] = piece

\* the rule's config gives key the boolean true
SetTrue(key) ==
    \E k \in DOMAIN TheRule.Config :
        /\ TheRule.Config[k][1] = key
        /\ TheRule.Config[k][2] = B(TRUE)
        /\ \A j \in 1..(k - 1) : TheRule.Config[j][1] # key

\* C12: an image runs as root exactly when its user is "", "root" or "0"; the
\* user rule fails exactly when the image runs as root and allow_root is not
\* true, so every other user passes whatever allow_root is; the failure
\* message states the user
C12_UserRule ==
    Judged("user") =>
        /\ facts.RunsAsRoot <=> facts.User \in {"", "root", "0"}
        /\ ~TheResult.Passed <=> (facts.User \in {"", "root", "0"} /\ ~SetTrue("allow_root"))
        /\ ~TheResult.Passed =>
               TheResult.Message = <<"image runs as root (user=", facts.User, ")">>

\* the user rule failed an image whose user is "0", and allow_root was given as false
C12_Witness ==
    /\ Judged("user")
    /\ facts.User = "0"
    /\ HasKey(TheRule, "allow_root")
    /\ ~TheResult.Passed

\* the whole-MB size of the judged image: the largest number of whole MB that
\* fit in its byte size
WholeMB == CHOOSE s \in 0..(MaxSizeMB + 1) :
               s * BytesPerMB <= facts.Size /\ facts.Size < (s + 1) * BytesPerMB

\* the integer the rule's config gives key, 0 when it gives none
Threshold(key) == GetConfigInt(TheRule, key)

\* C13: with S the whole-MB size, the size rule fails exactly when max_mb > 0
\* and S > max_mb, and its message then holds S and max_mb; with max_mb 0 it
\* never fails; when it does not fail and warn_mb is set and S > warn_mb it
\* passes with a message holding the warning threshold; otherwise it passes
\* with the plain size message
C13_SizeRule ==
    Judged("size") =>
        LET whole == WholeMB
            maxMB == Threshold("max_mb")
            warnMB == Threshold("warn_mb")
        IN /\ ~TheResult.Passed <=> (maxMB > 0 /\ whole > maxMB)
           /\ ~TheResult.Passed =>
                  TheResult.Message = <<"image size ", ToString(whole), "MB exceeds maximum ",
                                        ToString(maxMB), "MB">>
           /\ maxMB = 0 => TheResult.Passed
           /\ (TheResult.Passed /\ warnMB > 0 /\ whole > warnMB) =>
                  TheResult.Message = <<"image size ", ToString(whole),
                                        "MB exceeds warning threshold ", ToString(warnMB), "MB">>
           /\ (TheResult.Passed /\ ~(warnMB > 0 /\ whole > warnMB)) =>
                  TheResult.Message = <<"image size: ", ToString(whole), "MB">>

\* the size rule failed an image above max_mb, and passed one above warn_mb
\* with the warning
C13_Witness ==
    /\ Judged("size")
    /\ Threshold("max_mb") = 3
    /\ Threshold("warn_mb") = 2
    /\ WholeMB = 4
    /\ ~TheResult.Passed

\* the size rule passed an image between warn_mb and max_mb with the warning
C13_WarnWitness ==
    /\ Judged("size")
    /\ Threshold("max_mb") = 3
    /\ Threshold("warn_mb") = 2
    /\ WholeMB = 3
    /\ TheResult.Passed
    /\ Says("MB exceeds warning threshold ")

\* C14: with max_mb > 0 the size rule fails every image whose size in bytes is
\* greater than max_mb * 1,048,576
C14_FailsAboveByteLimit ==
    (Judged("size") /\ Threshold("max_mb") > 0
                    /\ facts.Size > Threshold("max_mb") * BytesPerMB)
        => ~TheResult.Passed

\* the keys the label rule requires, as declared
Required == GetConfigStringSlice(TheRule, "required")

\* the judged image has no label named key
Absent(key) == \A k \in DOMAIN facts.Labels : facts.Labels[k][1] # key

\* the required keys the image lacks, in declaration order
Missing == SelectSeq(Required, Absent)

\* the strings of keys with sep between neighbours
Listed(keys, sep) ==
    [i \in 1..(2 * Len(keys) - 1) |-> IF i % 2 = 1 THEN Str(keys[(i + 1) \div 2]) ELSE sep]

\* C15: the label rule yields one Result; it fails exactly when some required
\* key is absent from the image's labels, and the failure message lists the
\* absent keys and no other, comma-joined, in the order of `required`
C15_LabelRule ==
    Judged("label") =>
        /\ Len(calls[1]) = 1
        /\ ~TheResult.Passed <=> (\E k \in DOMAIN Required : Absent(Required[k]))
        /\ ~TheResult.Passed =>
               TheResult.Message = <<"missing required labels: ">> \o Listed(Missing, ", ")

\* the label rule failed an image that has one of the required keys and lacks
\* two others
C15_Witness ==
    /\ Judged("label")
    /\ Len(Missing) = 2
    /\ Len(Missing) < Len(Required)
    /\ Missing[1] # Missing[2]
    /\ ~TheResult.Passed

\* the deny patterns of the judged rule
Patterns == DenyPatterns(TheRule)

AllCompile == Malformed(TheRule) = {}

\* the (pattern, entry) index pairs, by pattern and then by entry
PatternEntryPairs ==
    [i \in 1..(Len(Patterns) * Len(facts.Env)) |->
        <<((i - 1) \div Len(facts.Env)) + 1, ((i - 1) % Len(facts.Env)) + 1>>]

Matching(pair) == MatchString(Patterns[pair[1]], facts.Env[pair[2]])

Hits == SelectSeq(PatternEntryPairs, Matching)

\* the text of an env entry before its first "=", the whole entry if it has none
KeyOf(entry) ==
    IF \E k \in DOMAIN entry : entry[k] = "="
    THEN SubSeq(entry, 1, (CHOOSE k \in DOMAIN entry :
                               /\ entry[k] = "="
                               /\ \A j \in 1..(k - 1) : entry[j] # "=") - 1)
    ELSE entry

\* the message pieces reporting the hits, "; " between neighbours
Reported ==
    [i \in 1..(5 * Len(Hits) - 1) |->
        LET hit == Hits[((i - 1) \div 5) + 1]
        IN CASE i % 5 = 1 -> "env var "
             [] i % 5 = 2 -> Str(KeyOf(facts.Env[hit[2]]))
             [] i % 5 = 3 -> " matches pattern "
             [] i % 5 = 4 -> Str(Patterns[hit[1]])
             [] OTHER -> "; "]

\* the pieces a failure message of the env rule may be made of: its fixed
\* texts, the keys of the env entries and the deny patterns
KeyAndPatternTexts ==
    {"found suspicious env vars: ", "env var ", " matches pattern ", "; "}
    \cup {Str(KeyOf(facts.Env[k])) : k \in DOMAIN facts.Env}
    \cup {Str(Patterns[k]) : k \in DOMAIN Patterns}

\* C16: when all deny patterns compile, the env rule fails exactly when some
\* pattern matches some raw env entry; the message reports, for each match, by
\* pattern and then by entry, the entry's key and the pattern; nothing else of
\* an entry (its value) is copied into the message
C16_EnvRule ==
    (Judged("env") /\ AllCompile) =>
        /\ ~TheResult.Passed <=> (\E p \in DOMAIN Patterns, e \in DOMAIN facts.Env :
                                     MatchString(Patterns[p], facts.Env[e]))
        /\ ~TheResult.Passed =>
               /\ TheResult.Message = <<"found suspicious env vars: ">> \o Reported
               /\ \A k \in DOMAIN TheResult.Message :
                      TheResult.Message[k] \in KeyAndPatternTexts

\* the env rule failed on two matches whose pattern order differs from their
\* entry order, one of them an entry with a value
C16_Witness ==
    /\ Judged("env")
    /\ AllCompile
    /\ Len(Hits) = 2
    /\ Hits[1][2] > Hits[2][2]
    /\ facts.Env[Hits[1][2]] = Secret
    /\ ~TheResult.Passed

\* the base image of the judged image is empty or "unknown"
NoBase == facts.BaseImage = <<>> \/ facts.BaseImage = UnknownBase

AllowedPrefixes == GetConfigStringSlice(TheRule, "allowed_prefixes")

\* prefix starts the base image when letter case is ignored
StartsBase(prefix) ==
    /\ Len(prefix) <= Len(facts.BaseImage)
    /\ \A j \in DOMAIN prefix : LowerChar(prefix[j]) = LowerChar(facts.BaseImage[j])

PrefixAllowed == \E k \in DOMAIN AllowedPrefixes : StartsBase(AllowedPrefixes[k])

\* C17: with an empty or "unknown" base image the base rule passes exactly
\* when allow_unknown is true; otherwise one allowed prefix that starts the
\* base image, case ignored, makes it pass whatever allow_unknown is;
\* otherwise it passes with a warning when allow_unknown is true and fails
\* when it is not
C17_BaseRule ==
    Judged("base") =>
        /\ NoBase => (TheResult.Passed <=> SetTrue("allow_unknown"))
        /\ (~NoBase /\ PrefixAllowed) =>
               /\ TheResult.Passed
               /\ TheResult.Message = <<"base image: ", Str(facts.BaseImage)>>
        /\ (~NoBase /\ ~PrefixAllowed) =>
               /\ TheResult.Passed <=> SetTrue("allow_unknown")
               /\ TheResult.Passed =>
                      TheResult.Message =
                          <<"base image ", Str(facts.BaseImage), " not in recommended list">>

\* the base rule passed a base image for a prefix written in another case,
\* with allow_unknown false
C17_Witness ==
    /\ Judged("base")
    /\ facts.BaseImage = Alpine
    /\ AllowedPrefixes = << <<"A", "L", "P">> >>
    /\ HasKey(TheRule, "allow_unknown")
    /\ ~SetTrue("allow_unknown")
    /\ TheResult.Passed

\* C18: the layers rule fails exactly when max_layers > 0 and the layer count
\* N > max_layers; when it does not fail and warn_layers > 0 and
\* N > warn_layers it passes with a warning; otherwise it passes; max_layers 0
\* or absent disables the hard limit
C18_LayersRule ==
    Judged("layers") =>
        LET count == facts.LayerCount
            maxLayers == Threshold("max_layers")
            warnLayers == Threshold("warn_layers")
        IN /\ ~TheResult.Passed <=> (maxLayers > 0 /\ count > maxLayers)
           /\ (TheResult.Passed /\ warnLayers > 0 /\ count > warnLayers) =>
                  TheResult.Message = <<"layer count ", ToString(count),
                                        " exceeds warning threshold ", ToString(warnLayers)>>
           /\ (TheResult.Passed /\ ~(warnLayers > 0 /\ count > warnLayers)) =>
                  TheResult.Message = <<"layer count: ", ToString(count)>>
           /\ (~HasKey(TheRule, "max_layers") \/ maxLayers = 0) => TheResult.Passed

\* the layers rule passed an image exactly at max_layers, above warn_layers,
\* with the warning
C18_Witness ==
    /\ Judged("layers")
    /\ Threshold("max_layers") = 3
    /\ Threshold("warn_layers") = 1
    /\ facts.LayerCount = 3
    /\ TheResult.Passed
    /\ Says(" exceeds warning threshold ")

----------------------------------------------------------------------------
(* SpecReport: scans with a policy file or the embedded default, up to the *)
(* written report                                                         *)

ReportRules ==
    { MkRule("no-root", "no root", "must not run as root", "critical", "user", <<>>),
      MkRule("secrets", "no secrets", "", "high", "env",
             << <<"deny_patterns", L(<<S(<<"(", "?", "i", ")", "p", "w">>)>>)>> >>),
      MkRule("size", "size limit", "", "medium", "size", << <<"max_mb", I(3)>> >>),
      MkRule("layers", "layer count", "", "low", "layers", << <<"max_layers", I(3)>> >>),
      MkRule("labels", "required labels", "labels for audit", "info", "label",
             << <<"required", L(<<S(<<"m", "n", "t">>)>>)>> >>),
      MkRule("made-up", "made up", "", "info", "totally-made-up", <<>>),
      MkRule("base", "approved base", "", "urgent", "base", <<>>) }

ReportPolicies == {MkPolicy("site", rules) : rules \in SeqsUpTo(ReportRules, MaxRules)}

InitReport ==
    /\ pc = "extracted"
    /\ facts \in FactsSet
    /\ policyPath \in {"", ExplicitPath}
    /\ \E p \in ReportPolicies : files = [path \in {ExplicitPath} |-> Yaml(p)]
    /\ embedded = Yaml(DefaultPolicy)
    /\ policy = NoPolicy
    /\ validated = FALSE
    /\ runErr = ""
    /\ imageName \in {"app:1", "registry.local/app@sha256:0a"}
    /\ format \in Formats
    /\ report = NoReport
    /\ output = NoOutput
    /\ IdleScan
    /\ IdleEngine
    /\ IdleValidate
    /\ IdleAux
    /\ IdleCount

SpecReport == InitReport /\ [][NextRun]_vars

\* report.New has returned
ReportBuilt == pc \in {"reported", "done"}

\* C11: for the Report built from the Results of the evaluation, TotalRules is
\* the number of Results and is Passed + Failed, Failed is
\* CountFailures(Results), and BySeverity summed over the five severities is
\* Failed
C11_ReportCounts ==
    ReportBuilt =>
        /\ report.Results = calls[1]
        /\ report.TotalRules = Len(report.Results)
        /\ report.TotalRules = report.Passed + report.Failed
        /\ report.Failed = CountFailures(report.Results)
        /\ report.Failed = Cardinality({k \in DOMAIN report.Results : ~report.Results[k].Passed})
        /\ report.BySeverity["critical"] + report.BySeverity["high"]
               + report.BySeverity["medium"] + report.BySeverity["low"]
               + report.BySeverity["info"] = report.Failed

\* a Report was built from one passing and one failing Result
C11_Witness ==
    /\ ReportBuilt
    /\ report.Passed = 1
    /\ report.Failed = 1
    /\ report.BySeverity["info"] = 1

\* the scan has written its report in the format f
Written(kind) == pc = "done" /\ output.kind = kind

\* the indices of the failing Results of the Report, ascending
FailingIndices ==
    SelectSeq([k \in 1..Len(report.Results) |-> k], LAMBDA k : ~report.Results[k].Passed)

\* the level the SARIF document gives a severity
LevelOf(severity) ==
    IF severity = "critical" \/ severity = "high" THEN "error"
    ELSE IF severity = "medium" THEN "warning"
    ELSE IF severity = "low" THEN "note"
    ELSE "none"

\* C19: the SARIF findings are the failing Results, one finding each, in Result
\* order, and no passing Result; a finding's level is error for critical and
\* high, warning for medium, note for low, none otherwise; its location is
\* the scanned image; the rule descriptors are the policy's rules, one each,
\* in declaration order
C19_SarifFindings ==
    Written("sarif") =>
        LET findings == output.doc.results
            descriptors == output.doc.driver.rules
        IN /\ Len(findings) = Len(FailingIndices)
           /\ \A j \in DOMAIN findings :
                  /\ findings[j].ruleId = report.Results[FailingIndices[j]].RuleID
                  /\ findings[j].message = report.Results[FailingIndices[j]].Message
                  /\ findings[j].level = LevelOf(report.Results[FailingIndices[j]].Severity)
                  /\ findings[j].locations = <<imageName>>
           /\ Len(descriptors) = Len(policy.Rules)
           /\ \A k \in DOMAIN descriptors :
                  /\ descriptors[k].id = policy.Rules[k].ID
                  /\ descriptors[k].name = policy.Rules[k].Name

\* a SARIF document was written for a passing Result followed by a failing one
C19_Witness ==
    /\ Written("sarif")
    /\ Len(report.Results) = 2
    /\ report.Results[1].Passed
    /\ ~report.Results[2].Passed
    /\ Len(output.doc.results) = 1

\* a SARIF document without findings was written for Results that all passed
C19_AllPassWitness ==
    /\ Written("sarif")
    /\ report.Failed = 0
    /\ report.Passed > 0
    /\ output.doc.results = <<>>

\* the label of the breakdown line of a severity
BreakdownLabel(severity) ==
    CASE severity = "critical" -> "  Critical: "
      [] severity = "high" -> "  High:     "
      [] severity = "medium" -> "  Medium:   "
      [] severity = "low" -> "  Low:      "
      [] severity = "info" -> "  Info:     "

\* the count the written breakdown shows for a severity, 0 if it shows no line
Shown(severity) ==
    IF \E k \in DOMAIN output.lines : output.lines[k][1] = BreakdownLabel(severity)
    THEN LET line == output.lines[CHOOSE k \in DOMAIN output.lines :
                                      output.lines[k][1] = BreakdownLabel(severity)]
         IN CHOOSE n \in 0..Len(report.Results) : ToString(n) = line[2]
    ELSE 0

\* C20: the text report shows a breakdown line for a severity exactly when
\* that severity's failure count is non-zero, for each of the five
\* severities, and the counts shown add up to the Failed count
C20_BreakdownShowsNonZero ==
    Written("text") =>
        /\ \A severity \in Severities :
               (\E k \in DOMAIN output.lines : output.lines[k][1] = BreakdownLabel(severity))
                   <=> report.BySeverity[severity] > 0
        /\ Shown("critical") + Shown("high") + Shown("medium") + Shown("low") + Shown("info")
               = report.Failed

----------------------------------------------------------------------------
(* SpecScan: scans, one process after the other, from the first line of    *)
(* run to the exit of the process, over one cache directory                *)

\* no facts extracted yet
NoFacts == [extracted |-> FALSE]

MkLayer(layerDigest, mb) == [Digest |-> layerDigest, Size |-> mb * BytesPerMB]

\* the image the daemon or a tarball holds for ref, as buildImage returns it;
\* From is what inferBaseImage makes of the history
MkImage(ref, user, env, from, layers) ==
    [loaded |-> TRUE,
     Reference |-> ref,
     Config |-> [User |-> user, Labels |-> <<>>, Env |-> env, From |-> from,
                 RootFS |-> [Type |-> "layers"]],
     Manifest |-> [Layers |-> [k \in DOMAIN layers |-> layers[k].Digest]],
     Layers |-> layers]

BaseLayer == MkLayer("sha256:base", 1)

\* runs as root on the shared base layer
WebImage ==
    MkImage("web:1", "root", <<Secret>>, Alpine, <<BaseLayer, MkLayer("sha256:web", 1)>>)

\* runs as app on the shared base layer, four layers
ApiImage ==
    MkImage("api:1", "app", <<Harmless>>, Alpine,
            <<BaseLayer, MkLayer("sha256:api1", 1), MkLayer("sha256:api2", 1),
              MkLayer("sha256:api3", 1)>>)

\* runs as app on a base of its own, one layer
ToolImage == MkImage("tool:1", "app", <<>>, <<"d", "e", "b">>, <<MkLayer("sha256:tool", 1)>>)

Images == {WebImage, ApiImage, ToolImage}

\* the image arguments tried: the references of Images and one nothing answers to
Refs == {img.Reference : img \in Images} \cup {"gone:1"}

InitScan ==
    /\ pc = "start"
    /\ imageName \in Refs
    /\ policyPath \in {"", ExplicitPath}
    /\ useCache \in BOOLEAN
    /\ format = "text"
    /\ files = <<>>
    /\ embedded = Yaml(DefaultPolicy)
    /\ facts = NoFacts
    /\ policy = NoPolicy
    /\ validated = FALSE
    /\ runErr = ""
    /\ report = NoReport
    /\ output = NoOutput
    /\ image = NoImage
    /\ cacheFiles = <<>>
    /\ digest = ""
    /\ cached = NoCached
    /\ exit = NoExit
    /\ IdleEngine
    /\ IdleValidate
    /\ IdleAux
    /\ IdleCount

\* run: image.NewCache, image.Load, the cache key and cache.Get
RunInspect ==
    /\ pc = "start"
    /\ \E mkdirOk \in BOOLEAN :
           IF useCache /\ ~mkdirOk
           THEN /\ runErr' = "failed to init cache"
                /\ pc' = "failed"
                /\ UNCHANGED <<image, digest, cached>>
           ELSE IF \A img \in Images : img.Reference # imageName
           THEN /\ runErr' = "failed to load image"
                /\ pc' = "failed"
                /\ UNCHANGED <<image, digest, cached>>
           ELSE \E img \in Images :
                    /\ img.Reference = imageName
                    /\ image' = img
                    /\ digest' = RunDigest(img)
                    /\ cached' = CacheGet(cacheFiles, useCache, RunDigest(img))
                    /\ runErr' = ""
                    /\ pc' = "inspected"
    /\ UNCHANGED <<facts, policy, evaluators, calls, verr, results, counts, critical,
                   policyPath, files, embedded, validated, reportVars,
                   useCache, cacheFiles, exit, auxVars>>

\* run: extracted, err := facts.Extract(img)
RunExtract ==
    /\ pc = "inspected"
    /\ pc' = "extracted"
    /\ facts' = Extract(image.Config.User, image.Config.Labels, image.Config.Env,
                        image.Config.From, Len(image.Layers), SumSizes(image.Layers))
    /\ UNCHANGED <<policy, evaluators, calls, verr, results, counts, critical,
                   policyPath, files, embedded, validated, runErr, reportVars,
                   scanVars, auxVars>>

\* the next process: new arguments, the cache directory as the last one left it
MainAgain ==
    /\ pc = "exited"
    /\ pc' = "start"
    /\ imageName' \in Refs
    /\ policyPath' \in {"", ExplicitPath}
    /\ useCache' \in BOOLEAN
    /\ facts' = NoFacts
    /\ policy' = NoPolicy
    /\ validated' = FALSE
    /\ runErr' = ""
    /\ report' = NoReport
    /\ output' = NoOutput
    /\ image' = NoImage
    /\ digest' = ""
    /\ cached' = NoCached
    /\ exit' = NoExit
    /\ evaluators' = <<>>
    /\ calls' = <<>>
    /\ UNCHANGED <<verr, results, counts, critical, files, embedded, format,
                   cacheFiles, auxVars>>

NextScan == RunInspect \/ RunExtract \/ NextRun \/ MainAgain

SpecScan == InitScan /\ [][NextScan]_vars

\* C21: the process of a scan exits with code 0 exactly when the scan
\* completed and all checks passed, and with code 1 when a check failed or an
\* error occurred
C21_ExitCodes ==
    pc = "exited" =>
        /\ exit.code \in {0, 1}
        /\ exit.code = 0 <=> (runErr = "" /\ report.built /\ report.Failed = 0)

----------------------------------------------------------------------------
(* SpecSettings: scans with policy files that use settings and fail_fast *)

FailFast(rule) == [rule EXCEPT !.FailFast = TRUE]

SettingsRules ==
    { MkRule("no-root", "no root", "", "critical", "user", <<>>),
      FailFast(MkRule("no-root", "no root", "", "critical", "user", <<>>)),
      MkRule("layers", "layer count", "", "low", "layers", << <<"max_layers", I(3)>> >>),
      MkRule("labels", "required labels", "", "info", "label",
             << <<"required", L(<<S(Mnt)>>)>> >>),
      MkRule("secrets", "no secrets", "", "high", "env",
             << <<"deny_patterns", L(<<S(<<"[", "a">>)>>)>> >>) }

SettingsPolicies ==
    {[MkPolicy("site", rules) EXCEPT !.Settings = [FailOnError |-> failOnError,
                                                   MinSeverity |-> minSeverity]] :
        rules \in SeqsUpTo(SettingsRules, MaxRules),
        failOnError \in BOOLEAN,
        minSeverity \in {"", "low", "medium", "critical"}}

InitSettings ==
    /\ pc = "extracted"
    /\ facts \in FactsSet
    /\ policyPath = ExplicitPath
    /\ \E p \in SettingsPolicies : files = [path \in {ExplicitPath} |-> Yaml(p)]
    /\ embedded = Yaml(DefaultPolicy)
    /\ policy = NoPolicy
    /\ validated = FALSE
    /\ runErr = ""
    /\ imageName = "app:1"
    /\ format \in {"text", "json"}
    /\ report = NoReport
    /\ output = NoOutput
    /\ IdleScan
    /\ IdleEngine
    /\ IdleValidate
    /\ IdleAux
    /\ IdleCount

SpecSettings == InitSettings /\ [][NextRun]_vars

\* critical > high > medium > low > info
Rank(severity) ==
    CASE severity = "critical" -> 4
      [] severity = "high" -> 3
      [] severity = "medium" -> 2
      [] severity = "low" -> 1
      [] OTHER -> 0

\* the severity is below the policy's min_severity
BelowThreshold(severity) == Rank(severity) < Rank(policy.Settings.MinSeverity)

\* C22: a failing rule whose severity is below settings.min_severity is
\* ignored: it is no failure of the report and is in neither the failed count
\* nor the by-severity counts
C22_MinSeverityFilters ==
    (ReportBuilt /\ policy.Settings.MinSeverity \in Severities) =>
        /\ \A k \in DOMAIN report.Results :
               ~report.Results[k].Passed => ~BelowThreshold(report.Results[k].Severity)
        /\ report.Failed = Cardinality({k \in DOMAIN calls[1] :
                                           /\ ~calls[1][k].Passed
                                           /\ ~BelowThreshold(calls[1][k].Severity)})
        /\ \A severity \in Severities :
               BelowThreshold(severity) => report.BySeverity[severity] = 0

\* C23: when a rule with fail_fast: true fails, no rule declared after it
\* contributes a Result to the scan's report
C23_FailFastStops ==
    ReportBuilt =>
        \A i \in DOMAIN policy.Rules :
            (policy.Rules[i].FailFast /\ ~calls[1][i].Passed) => Len(report.Results) <= i

\* C27: with settings.fail_on_error true, a scan in which a rule's evaluator
\* returned an error ends in an error; with it false the error only fails
\* that rule
C27_FailOnError ==
    (pc \in {"done", "exited"} /\ \E i \in DOMAIN Rules : Erring(i)) =>
        IF policy.Settings.FailOnError
        THEN runErr # ""
        ELSE /\ runErr = ""
             /\ \A i \in DOMAIN Rules : Erring(i) => ~report.Results[i].Passed

BuiltinKinds == {"user", "size", "label", "env", "base", "layers"}

\* the evaluator NewEngine binds to a built-in kind
BuiltinFor(kind) ==
    CASE kind = "user" -> "UserEvaluator"
      [] kind = "size" -> "SizeEvaluator"
      [] kind = "label" -> "LabelEvaluator"
      [] kind = "env" -> "EnvEvaluator"
      [] kind = "base" -> "BaseEvaluator"
      [] kind = "layers" -> "LayersEvaluator"

\* the evaluator a rule of a bound kind is to be dispatched to
Expected(kind) == IF kind \in DOMAIN latest THEN latest[kind] ELSE BuiltinFor(kind)

\* C24: a new Engine has exactly the six built-in bindings; after any Register
\* calls a kind is bound to the evaluator most recently registered for it
\* (a built-in kind too), every other kind is bound as before, and rules are
\* dispatched accordingly, a kind never registered being reported as unknown
C24_Registry ==
    pc = "ready" =>
        /\ DOMAIN evaluators = BuiltinKinds \cup DOMAIN latest
        /\ \A kind \in DOMAIN evaluators : evaluators[kind] = Expected(kind)
        /\ \A c \in DOMAIN calls, i \in DOMAIN Rules :
               IF Rules[i].Kind \in BuiltinKinds \cup DOMAIN latest
               THEN LET out == EvaluatorEvaluate(Expected(Rules[i].Kind), facts, Rules[i])
                    IN out.ok => /\ calls[c][i].Passed = out.res.Passed
                                 /\ calls[c][i].Message = out.res.Message
               ELSE /\ ~calls[c][i].Passed
                    /\ calls[c][i].Message = <<"unknown rule kind: ", Rules[i].Kind>>

\* Evaluate returned on an engine whose built-in kind user was rebound and
\* whose kind custom was registered, for a user rule and a rule of a kind
\* never registered
C24_Witness ==
    /\ pc = "ready"
    /\ DOMAIN latest = {"user", "custom"}
    /\ Len(calls) >= 1
    /\ \E i, j \in DOMAIN Rules :
           /\ Rules[i].Kind = "user"
           /\ Rules[j].Kind \notin DOMAIN evaluators
    /\ Len(calls[1]) = Len(Rules)

\* C29: a call of Evaluate, whatever evaluators it runs, leaves the Facts, the
\* Policy (its rules, their order and their config bags) and the registry as
\* they were before the call
C29_InputsUnchanged ==
    [][(pc = "ready" /\ Len(calls') > Len(calls)) =>
           /\ facts' = facts
           /\ policy' = policy
           /\ evaluators' = evaluators]_vars

\* Evaluate has returned twice for an image with a mixed-case base image and
\* a policy with a base rule
C29_Witness ==
    /\ pc = "ready"
    /\ Len(calls) = 2
    /\ facts.BaseImage = Alpine
    /\ \E i \in DOMAIN Rules : Rules[i].Kind = "base"

\* the candidate files that exist, by their place in the search order
Existing == {k \in DOMAIN Candidates : Candidates[k] \in DOMAIN files}

\* the source the scan is to take its policy from: the -policy file, else the
\* first candidate that exists, else "" for the embedded default
Source ==
    IF policyPath # "" THEN policyPath
    ELSE IF Existing # {}
    THEN Candidates[CHOOSE k \in Existing : \A j \in Existing : k <= j]
    ELSE ""

\* the file holds a policy that parses and validates
Loads(path) ==
    /\ path \in DOMAIN files
    /\ files[path].kind = "yaml"
    /\ Validate(files[path].policy).ok

\* C28: the policy a scan uses is that of the -policy file if the flag is
\* given, else of the first existing candidate in the search order, else the
\* embedded default; when the chosen file is missing, unreadable, malformed or
\* invalid the scan fails instead of trying a later source
C28_DiscoveryOrder ==
    pc # "extracted" =>
        IF Source = "" THEN runErr = "" /\ policy = DefaultPolicy
        ELSE IF Loads(Source) THEN runErr = "" /\ policy = files[Source].policy
        ELSE runErr # "" /\ policy = NoPolicy /\ pc \in {"failed", "exited"}

\* without -policy, the first candidate is absent, the second is malformed
\* and the third would load: the scan failed
C28_Witness ==
    /\ pc = "failed"
    /\ policyPath = ""
    /\ Candidates[1] \notin DOMAIN files
    /\ Candidates[2] \in DOMAIN files
    /\ files[Candidates[2]].kind = "malformed"
    /\ Loads(Candidates[3])

\* C26: the cache key identifies the image: the entry a scan's Get finds was
\* put by a scan of an image with the same config, manifest and layers
C26_KeyIdentifiesImage ==
    (pc = "inspected" /\ cached.found) =>
        /\ cached.result.Config = image.Config
        /\ cached.result.Manifest = image.Manifest
        /\ cached.result.LayerInfo = image.Layers

----------------------------------------------------------------------------
(* SpecConc: several callers inside Evaluate at once, sharing one Engine *)

EngineRule(id) == CHOOSE r \in EngineRules : r.ID = id

\* the policies the callers evaluate
ConcPolicies ==
    { MkPolicy("first", <<EngineRule("no-root"), EngineRule("secrets")>>),
      MkPolicy("second", <<EngineRule("custom"), EngineRule("base")>>),
      MkPolicy("third", <<EngineRule("made-up")>>),
      MkPolicy("empty", <<>>) }

\* the Engines the callers share: as constructed, or with one registration made
\* before the first call
ConcEngines == {NewEngine} \cup {Register(NewEngine, c[1], c[2]) : c \in RegChoices}

\* the callers: goroutines 1 and 2
Callers == {1, 2}

\* a caller about to call Evaluate(f, p)
MkCaller(f, p) == [pc |-> "call", facts |-> f, policy |-> p, i |-> 1, results |-> <<>>]

InitConc ==
    /\ pc = "ready"
    /\ evaluators \in ConcEngines
    /\ callers \in [Callers -> {MkCaller(f, p) : f \in FactsSet, p \in ConcPolicies}]
    /\ calls = <<>>
    /\ got = NoGot
    /\ latest = <<>>
    /\ facts = NoFacts
    /\ policy = NoPolicy
    /\ IdleValidate
    /\ IdleCount
    /\ IdleRun

\* Evaluate entered by a caller: var results []*Result
EvaluateEnter ==
    /\ pc = "ready"
    /\ \E c \in DOMAIN callers :
           /\ callers[c].pc = "call"
           /\ callers' = [callers EXCEPT ![c].pc = "loop", ![c].i = 1, ![c].results = <<>>]
    /\ UNCHANGED <<pc, facts, policy, evaluators, calls, verr, results, counts, critical,
                   policyPath, files, embedded, validated, runErr, reportVars, scanVars,
                   got, latest>>

\* EvaluateIterate with the results slice kept in the Engine, one for all callers
EvaluateIterateSharedResults ==
    /\ pc = "ready"
    /\ \E c \in DOMAIN callers :
           /\ callers[c].pc = "loop"
           /\ callers[c].i <= Len(callers[c].policy.Rules)
           /\ callers' = [d \in DOMAIN callers |->
                  LET appended == Append(callers[d].results,
                                         RuleResult(evaluators, callers[c].facts,
                                                    callers[c].policy.Rules[callers[c].i]))
                  IN IF d = c
                     THEN [callers[d] EXCEPT !.i = @ + 1, !.results = appended]
                     ELSE IF callers[d].pc = "loop"
                     THEN [callers[d] EXCEPT !.results = appended]
                     ELSE callers[d]]
    /\ UNCHANGED <<pc, facts, policy, evaluators, calls, verr, results, counts, critical,
                   policyPath, files, embedded, validated, runErr, reportVars, scanVars,
                   got, latest>>

\* one iteration of the loop of Evaluate in one caller: the rule at i is
\* looked up, evaluated, and its Result appended to the caller's own slice
EvaluateIterate ==
    /\ pc = "ready"
    /\ \E c \in DOMAIN callers :
           /\ callers[c].pc = "loop"
           /\ callers[c].i <= Len(callers[c].policy.Rules)
           /\ callers' = [callers EXCEPT
                  ![c].i = @ + 1,
                  ![c].results = Append(@, RuleResult(evaluators, callers[c].facts,
                                                      callers[c].policy.Rules[callers[c].i]))]
    /\ UNCHANGED <<pc, facts, policy, evaluators, calls, verr, results, counts, critical,
                   policyPath, files, embedded, validated, runErr, reportVars, scanVars,
                   got, latest>>

\* the loop is over: return results
EvaluateReturn ==
    /\ pc = "ready"
    /\ \E c \in DOMAIN callers :
           /\ callers[c].pc = "loop"
           /\ callers[c].i > Len(callers[c].policy.Rules)
           /\ callers' = [callers EXCEPT ![c].pc = "returned"]
    /\ UNCHANGED <<pc, facts, policy, evaluators, calls, verr, results, counts, critical,
                   policyPath, files, embedded, validated, runErr, reportVars, scanVars,
                   got, latest>>

NextConc == EvaluateEnter \/ EvaluateIterate \/ EvaluateReturn

SpecConc == InitConc /\ [][NextConc]_vars

\* what the caller has of the Results its call returns when it runs alone
AloneSoFar(c) ==
    IF callers[c].pc = "call" THEN <<>>
    ELSE SubSeq(Evaluate(evaluators, callers[c].facts, callers[c].policy),
                1, callers[c].i - 1)

\* a step leaves the Engine's registry, every caller's Facts and Policy, and
\* all but one caller's position and Results as they are
StepIsLocal ==
    /\ evaluators' = evaluators
    /\ \A c \in DOMAIN callers :
           /\ callers'[c].facts = callers[c].facts
           /\ callers'[c].policy = callers[c].policy
    /\ \A c, d \in DOMAIN callers :
           (callers'[c] # callers[c] /\ callers'[d] # callers[d]) => c = d

\* C25: however the Evaluate calls of several callers on one Engine
\* interleave, no step of a call writes the registry, the Facts, the Policy
\* or anything of another call, and each call holds, and in the end returns,
\* exactly the Results it returns when it runs alone
C25_NoLocking ==
    /\ [][StepIsLocal]_vars
    /\ [](\A c \in DOMAIN callers : callers[c].results = AloneSoFar(c))

\* both callers are midway through their loops at once, on different Facts
\* and different two-rule policies
C25_Witness ==
    /\ DOMAIN callers = Callers
    /\ \A c \in Callers :
           /\ callers[c].pc = "loop"
           /\ callers[c].i = 2
           /\ Len(callers[c].policy.Rules) = 2
    /\ callers[1].facts # callers[2].facts
    /\ callers[1].policy # callers[2].policy

----------------------------------------------------------------------------
(* SpecConfig: the accessors of a rule's config bag *)

\* the values a config bag holds, of every dynamic type the accessors tell apart
ConfigValues ==
    { S(<<"a", "b">>), S(<<>>),
      I(7), I(-3), I(0), [t |-> "int64", n |-> 9],
      Fl(25), Fl(-25), Fl(-5), Fl(30),
      B(TRUE), B(FALSE),
      L(<<S(<<"b">>), I(1), S(<<"a">>), B(TRUE), S(<<"b">>)>>), L(<<>>),
      Ss(<< <<"c">>, <<"a">> >>) }

\* the bags: absent, the key alone, the key after another key
ConfigBags ==
    {<<>>} \cup {<< <<"k", v>> >> : v \in ConfigValues}
           \cup {<< <<"other", v>>, <<"k", w>> >> : v, w \in ConfigValues}

\* the keys asked for
ConfigKeys == {"k", "other", "missing"}

InitConfig ==
    /\ pc = "config"
    /\ \E bag \in ConfigBags :
           policy = MkPolicy("config", <<MkRule("r", "rule", "", "low", "user", bag)>>)
    /\ facts = NoFacts
    /\ got = NoGot
    /\ callers = <<>>
    /\ latest = <<>>
    /\ IdleEngine
    /\ IdleValidate
    /\ IdleCount
    /\ IdleRun

\* what a call of an accessor returned; the fields of the other return types
\* stay at their zero values
Returned(fn, key, str, n, b, slice) ==
    [called |-> TRUE, fn |-> fn, key |-> key, str |-> str, n |-> n, b |-> b,
     slice |-> slice]

\* r.GetConfigString(key)
GetConfigStringCall ==
    /\ pc = "config"
    /\ \E key \in ConfigKeys :
           got' = Returned("GetConfigString", key,
                           GetConfigString(policy.Rules[1], key), 0, FALSE, <<>>)
    /\ UNCHANGED <<pc, facts, policy, evaluators, calls, verr, results, counts, critical,
                   policyPath, files, embedded, validated, runErr, reportVars, scanVars,
                   callers, latest>>

\* r.GetConfigInt(key)
GetConfigIntCall ==
    /\ pc = "config"
    /\ \E key \in ConfigKeys :
           got' = Returned("GetConfigInt", key, <<>>,
                           GetConfigInt(policy.Rules[1], key), FALSE, <<>>)
    /\ UNCHANGED <<pc, facts, policy, evaluators, calls, verr, results, counts, critical,
                   policyPath, files, embedded, validated, runErr, reportVars, scanVars,
                   callers, latest>>

\* r.GetConfigBool(key)
GetConfigBoolCall ==
    /\ pc = "config"
    /\ \E key \in ConfigKeys :
           got' = Returned("GetConfigBool", key, <<>>, 0,
                           GetConfigBool(policy.Rules[1], key), <<>>)
    /\ UNCHANGED <<pc, facts, policy, evaluators, calls, verr, results, counts, critical,
                   policyPath, files, embedded, validated, runErr, reportVars, scanVars,
                   callers, latest>>

\* r.GetConfigStringSlice(key)
GetConfigStringSliceCall ==
    /\ pc = "config"
    /\ \E key \in ConfigKeys :
           got' = Returned("GetConfigStringSlice", key, <<>>, 0, FALSE,
                           GetConfigStringSlice(policy.Rules[1], key))
    /\ UNCHANGED <<pc, facts, policy, evaluators, calls, verr, results, counts, critical,
                   policyPath, files, embedded, validated, runErr, reportVars, scanVars,
                   callers, latest>>

NextConfig ==
    GetConfigStringCall \/ GetConfigIntCall \/ GetConfigBoolCall \/ GetConfigStringSliceCall

SpecConfig == InitConfig /\ [][NextConfig]_vars

\* the bag of the rule the accessors are called on
Bag == policy.Rules[1].Config

\* the bag holds the key asked for
Stored == \E k \in DOMAIN Bag : Bag[k][1] = got.key

\* the value the bag holds under the key asked for
Value == Bag[CHOOSE k \in DOMAIN Bag : Bag[k][1] = got.key][2]

\* q is the number with tenths/10 truncated toward zero
TruncatedTo(tenths, q) ==
    IF tenths >= 0 THEN q >= 0 /\ 10 * q <= tenths /\ tenths < 10 * q + 10
    ELSE q <= 0 /\ 10 * q >= tenths /\ tenths > 10 * q - 10

\* out holds the string elements of items, each once, in their order
StringsInOrder(items, out) ==
    LET at == {k \in DOMAIN items : items[k].t = "str"}
    IN /\ Len(out) = Cardinality(at)
       /\ \A k \in at : out[Cardinality({m \in at : m <= k})] = items[k].s

\* C30: the accessors return the zero value of their type when the bag is
\* absent, the key is missing or the value has another type; GetConfigInt
\* returns an integer as it is and a floating-point value truncated toward
\* zero; GetConfigStringSlice returns the string elements in declared order
C30_AccessorsTotal ==
    got.called =>
        CASE got.fn = "GetConfigString" ->
                 IF Stored /\ Value.t = "str" THEN got.str = Value.s ELSE got.str = <<>>
          [] got.fn = "GetConfigInt" ->
                 IF Stored /\ Value.t \in {"int", "int64"} THEN got.n = Value.n
                 ELSE IF Stored /\ Value.t = "float" THEN TruncatedTo(Value.tenths, got.n)
                 ELSE got.n = 0
          [] got.fn = "GetConfigBool" ->
                 IF Stored /\ Value.t = "bool" THEN got.b = Value.b ELSE got.b = FALSE
          [] got.fn = "GetConfigStringSlice" ->
                 IF Stored /\ Value.t = "strs" THEN got.slice = Value.ss
                 ELSE IF Stored /\ Value.t = "list"
                 THEN StringsInOrder(Value.items, got.slice)
                 ELSE got.slice = <<>>

\* GetConfigInt was asked for the second key of a bag, which holds -2.5, and
\* returned -2
C30_Witness ==
    /\ got.called
    /\ got.fn = "GetConfigInt"
    /\ Len(Bag) = 2
    /\ Stored
    /\ Value = Fl(-25)
    /\ got.n = -2

====
